---- MODULE Spec2Model ----
\* Component model of disnake: the row packer of disnake/ui/action_row.py
\* (components_to_rows over ui.ActionRow) and the wire codec of
\* disnake/components.py (to_dict / from_payload / _component_factory).
EXTENDS Integers, Sequences, FiniteSets, TLC

VARIABLES
    pc,           \* position of the components_to_rows call: idle, loop, done, raised
    bare,         \* TRUE when the argument was a single component, not a Sequence
    components,   \* the entries of the argument the for loop has read so far
    heap,         \* the ui.ActionRow objects: heap[r] is the _children list of row r
    action_rows,  \* the local list action_rows (row ids)
    auto_row,     \* the local auto_row (a row id)
    result,       \* what the call gave back: the returned list, or the exception
    cd_pc,        \* position of the codec run: init, built, received, encoded, decoded, reencoded, raised
    cd_x,         \* the component instance that was constructed
    cd_w,         \* the wire object (payload dict) that is decoded
    cd_y,         \* the component _component_factory returned
    cd_w2,        \* to_dict() of the decoded component
    it,           \* the ui.Button or ui.UrlButton item: its class, _underlying, _row, _provided_custom_id
    it_op,        \* the last operation called on the item
    it_raised,    \* whether that operation raised
    it_arg,       \* the row argument of that operation (constructor or row setter)
    it_c,         \* the component argument of that operation (refresh_component, from_component)
    it_oids,      \* how many component instances exist
    it_explicit,  \* whether the caller supplied the custom_id the item now has
    it_last,      \* the value last written to each field of the item's component
    rw,           \* the _children list of the ui.ActionRow that is operated on
    rw_before,    \* that list before the last operation
    rw_op,        \* the last operation called on the row
    rw_raised,    \* whether that operation raised
    rw_index,     \* its index argument (the start of its slice)
    rw_stop,      \* the stop of its slice
    rw_item,      \* its item argument, or the item it returned
    rw_made,      \* how many items the add_ helpers have constructed
    msg_pc,       \* position of the rows_from_message call: none, received, done
    msg,          \* message.components: the ActionRow components of the message
    msg_strict,   \* the strict argument of the call
    msg_result,   \* what the call gave back: the list of ui rows, or the exception
    hp_pc,        \* position of a components_to_rows call on items without row hints
    hp_pcb,       \* position of the call on the same input, its items having row hints
    hp_a,         \* the locals of the first call: heap, action_rows, auto_row
    hp_b,         \* the locals of the second call
    hp_items,     \* how many items the input read so far holds
    hp_groups,    \* how many pre-built rows and nested sequences it holds
    wk_pc,        \* position of the walk_components generator: idle, new, yielded, finished
    wk_list,      \* the caller's list action_rows (row ids)
    wk_heap,      \* the _children list of each row
    wk_rows,      \* the generator's tuple(action_rows)
    wk_i,         \* the position of the outer loop in it
    wk_children,  \* the generator's tuple(row.children) of the current row
    wk_j,         \* the position of the inner loop
    wk_seen,      \* the children each row held when the outer loop reached it
    wk_out,       \* the pairs yielded so far
    wk_ops        \* how many changes the consumer made

vars == <<pc, bare, components, heap, action_rows, auto_row, result,
          cd_pc, cd_x, cd_w, cd_y, cd_w2,
          it, it_op, it_raised, it_arg, it_c, it_oids, it_explicit, it_last,
          rw, rw_before, rw_op, rw_raised, rw_index, rw_stop, rw_item, rw_made,
          msg_pc, msg, msg_strict, msg_result,
          hp_pc, hp_pcb, hp_a, hp_b, hp_items, hp_groups,
          wk_pc, wk_list, wk_heap, wk_rows, wk_i, wk_children, wk_j, wk_seen, wk_out, wk_ops>>

packVars == <<pc, bare, components, heap, action_rows, auto_row, result>>
codecVars == <<cd_pc, cd_x, cd_w, cd_y, cd_w2>>
itemVars == <<it, it_op, it_raised, it_arg, it_c, it_oids, it_explicit, it_last>>
rowVars == <<rw, rw_before, rw_op, rw_raised, rw_index, rw_stop, rw_item, rw_made>>
msgVars == <<msg_pc, msg, msg_strict, msg_result>>
hintVars == <<hp_pc, hp_pcb, hp_a, hp_b, hp_items, hp_groups>>
walkVars == <<wk_pc, wk_list, wk_heap, wk_rows, wk_i, wk_children, wk_j, wk_seen, wk_out, wk_ops>>

\* What a step of one part leaves alone: the state of the other parts.
notPackVars == <<codecVars, itemVars, rowVars, msgVars, hintVars, walkVars>>
notCodecVars == <<packVars, itemVars, rowVars, msgVars, hintVars, walkVars>>
notItemVars == <<packVars, codecVars, rowVars, msgVars, hintVars, walkVars>>
notRowVars == <<packVars, codecVars, itemVars, msgVars, hintVars, walkVars>>
notMsgVars == <<packVars, codecVars, itemVars, rowVars, hintVars, walkVars>>
notHintVars == <<packVars, codecVars, itemVars, rowVars, msgVars, walkVars>>
notWalkVars == <<packVars, codecVars, itemVars, rowVars, msgVars, hintVars>>

-----------------------------------------------------------------------------
\* Bounds of the model.

\* Longest argument sequence the for loop reads.
MaxEntries == 11
\* Most explicit groups (pre-built rows, nested sequences, other objects) in one argument.
MaxGroups == 2

\* The width limit of a row.
MaxWidth == 5

\* Sizes of the pre-built rows and of the nested sequences of an argument.
RowSizes == {0, 2, MaxWidth}
SeqSizes == {0, 2, MaxWidth, MaxWidth + 1}

-----------------------------------------------------------------------------
\* Helpers on sequences.

RECURSIVE Concat(_)
Concat(ss) == IF ss = <<>> THEN <<>> ELSE Head(ss) \o Concat(Tail(ss))

\* list.insert(index, x): a negative index counts from the end, and an index
\* beyond either end inserts at that end.
list_insert(l, index, x) ==
    LET i0 == IF index < 0 THEN index + Len(l) ELSE index
        i == IF i0 < 0 THEN 0 ELSE IF i0 > Len(l) THEN Len(l) ELSE i0
    IN  SubSeq(l, 1, i) \o <<x>> \o SubSeq(l, i + 1, Len(l))

\* The items first..first+n-1, in order: n new item objects.
NewItems(first, n) == [i \in 1..n |-> first + i - 1]

-----------------------------------------------------------------------------
\* ui.ActionRow (disnake/ui/action_row.py), on the _children list of a row.

\* ButtonBase.width
width(item) == 1

\* ActionRow.width: sum(child.width for child in self._children)
RECURSIVE ActionRow_width(_)
ActionRow_width(children) ==
    IF children = <<>> THEN 0 ELSE width(Head(children)) + ActionRow_width(Tail(children))

\* ActionRow.insert_item: raises ValueError when the width would exceed 5,
\* else inserts at index.
insert_item_OffByOne(children, index, item) ==
    IF ActionRow_width(children) + width(item) > MaxWidth + 1
    THEN [raised |-> TRUE, children |-> children]
    ELSE [raised |-> FALSE, children |-> list_insert(children, index, item)]

insert_item_ThenCheck(children, index, item) ==
    IF ActionRow_width(children) + width(item) > MaxWidth
    THEN [raised |-> TRUE, children |-> list_insert(children, index, item)]
    ELSE [raised |-> FALSE, children |-> list_insert(children, index, item)]

insert_item(children, index, item) ==
    IF ActionRow_width(children) + width(item) > MaxWidth
    THEN [raised |-> TRUE, children |-> children]
    ELSE [raised |-> FALSE, children |-> list_insert(children, index, item)]

\* ActionRow.append_item: insert_item(len(self), item)
append_item_Front(children, item) == insert_item(children, 0, item)

append_item(children, item) == insert_item(children, Len(children), item)

\* ActionRow.__init__(*components): appends each component in turn; the first
\* append that raises ends the construction with ValueError.
RECURSIVE ActionRow_fill(_, _)
ActionRow_fill(children, comps) ==
    IF comps = <<>> THEN [raised |-> FALSE, children |-> children]
    ELSE LET r == append_item(children, Head(comps))
         IN  IF r.raised THEN r ELSE ActionRow_fill(r.children, Tail(comps))

ActionRow_init_Clip(comps) ==
    [raised |-> FALSE,
     children |-> SubSeq(comps, 1, IF Len(comps) < MaxWidth THEN Len(comps) ELSE MaxWidth)]

ActionRow_init(comps) == ActionRow_fill(<<>>, comps)

-----------------------------------------------------------------------------
\* components_to_rows (disnake/ui/action_row.py).

NoResult == [status |-> "none", rows |-> <<>>]

Entry(kind, items, row) == [kind |-> kind, items |-> items, row |-> row]

IsGroup(e) == e.kind # "item"

NumGroups(cs) == Cardinality({i \in DOMAIN cs : IsGroup(cs[i])})

\* The items of the entries read so far, in input order.
Flatten(cs) == Concat([i \in DOMAIN cs |-> cs[i].items])

\* The next unused item object.
NextItem == Len(Flatten(components)) + 1

InitPack ==
    /\ pc = "idle"
    /\ bare = FALSE
    /\ components = <<>>
    /\ heap = <<>>
    /\ action_rows = <<>>
    /\ auto_row = 0
    /\ result = NoResult

\* The call: a non-Sequence argument becomes a one-element list; the locals
\* action_rows = [] and auto_row = ActionRow() are set up.
Call(single) ==
    /\ pc = "idle"
    /\ pc' = "loop"
    /\ bare' = single
    /\ heap' = Append(heap, <<>>)
    /\ auto_row' = Len(heap) + 1
    /\ action_rows' = <<>>
    /\ UNCHANGED <<components, result>>
    /\ UNCHANGED notPackVars

CanRead ==
    /\ pc = "loop"
    /\ Len(components) < MaxEntries
    /\ bare => components = <<>>

\* if auto_row.width > 0: action_rows.append(auto_row); auto_row = ActionRow()
\* The state is the record [heap, action_rows, auto_row].
SealAuto_Never(st) == st

SealAuto(st) ==
    IF ActionRow_width(st.heap[st.auto_row]) > 0
    THEN [heap |-> Append(st.heap, <<>>),
          action_rows |-> Append(st.action_rows, st.auto_row),
          auto_row |-> Len(st.heap) + 1]
    ELSE st

Locals == [heap |-> heap, action_rows |-> action_rows, auto_row |-> auto_row]

\* Loop body, isinstance(component, WrappedComponent): append to the auto row;
\* on ValueError emit the auto row and start a new one holding the component.
PackItem_DropOnOverflow(st, item) ==
    LET r == append_item(st.heap[st.auto_row], item)
    IN  IF r.raised
        THEN [heap |-> Append(st.heap, <<>>),
              action_rows |-> Append(st.action_rows, st.auto_row),
              auto_row |-> Len(st.heap) + 1]
        ELSE [st EXCEPT !.heap[st.auto_row] = r.children]

PackItem_ByRowHint(st, item) ==
    LET r == append_item(st.heap[st.auto_row], item)
    IN  IF r.raised \/ (item.row # <<>> /\ ActionRow_width(st.heap[st.auto_row]) > 0)
        THEN [heap |-> Append(st.heap, ActionRow_init(<<item>>).children),
              action_rows |-> Append(st.action_rows, st.auto_row),
              auto_row |-> Len(st.heap) + 1]
        ELSE [st EXCEPT !.heap[st.auto_row] = r.children]

PackItem(st, item) ==
    LET r == append_item(st.heap[st.auto_row], item)
    IN  IF r.raised
        THEN [heap |-> Append(st.heap, ActionRow_init(<<item>>).children),
              action_rows |-> Append(st.action_rows, st.auto_row),
              auto_row |-> Len(st.heap) + 1]
        ELSE [st EXCEPT !.heap[st.auto_row] = r.children]

IterItem ==
    /\ CanRead
    /\ LET item == NextItem
           st == PackItem(Locals, item)
       IN  /\ components' = Append(components, Entry("item", <<item>>, 0))
           /\ heap' = st.heap
           /\ action_rows' = st.action_rows
           /\ auto_row' = st.auto_row
    /\ UNCHANGED <<pc, bare, result>>
    /\ UNCHANGED notPackVars

\* Loop body, isinstance(component, ActionRow): the row is appended as it is.
PackRow_Reuse(st, row) ==
    LET s1 == SealAuto(st)
    IN  [heap |-> s1.heap,
         action_rows |-> Append(s1.action_rows, row),
         auto_row |-> row]

PackRow(st, row) ==
    LET s1 == SealAuto(st)
    IN  [s1 EXCEPT !.action_rows = Append(@, row)]

\* The entry is a ui.ActionRow the caller built beforehand with n children.
IterRow(n) ==
    /\ CanRead
    /\ NumGroups(components) < MaxGroups
    /\ LET made == ActionRow_init(NewItems(NextItem, n))
           row == Len(heap) + 1
           st == PackRow([Locals EXCEPT !.heap = Append(heap, made.children)], row)
       IN  /\ ~made.raised
           /\ components' = Append(components, Entry("row", made.children, row))
           /\ heap' = st.heap
           /\ action_rows' = st.action_rows
           /\ auto_row' = st.auto_row
    /\ UNCHANGED <<pc, bare, result>>
    /\ UNCHANGED notPackVars

\* Loop body, isinstance(component, Sequence): action_rows.append(ActionRow(*component));
\* a ValueError of the constructor leaves the call.
IterSeq(n) ==
    /\ CanRead
    /\ ~bare
    /\ NumGroups(components) < MaxGroups
    /\ LET items == NewItems(NextItem, n)
           s1 == SealAuto(Locals)
           made == ActionRow_init(items)
       IN  /\ components' = Append(components, Entry("seq", items, 0))
           /\ IF made.raised
              THEN /\ pc' = "raised"
                   /\ result' = [status |-> "ValueError", rows |-> <<>>]
                   /\ heap' = s1.heap
                   /\ action_rows' = s1.action_rows
                   /\ auto_row' = s1.auto_row
              ELSE /\ heap' = Append(s1.heap, made.children)
                   /\ action_rows' = Append(s1.action_rows, Len(s1.heap) + 1)
                   /\ auto_row' = s1.auto_row
                   /\ UNCHANGED <<pc, result>>
    /\ UNCHANGED bare
    /\ UNCHANGED notPackVars

\* The objects that are no WrappedComponent, no ui.ActionRow and no Sequence:
\* a component of disnake/components.py (Button, UrlButton, TextInput) or a
\* foreign object with type and to_dict, a components.ActionRow, anything else.
OtherKinds == {"component", "wire_row", "other"}

\* Loop body, anything else: TypeError.
IterOther(kind) ==
    /\ CanRead
    /\ NumGroups(components) < MaxGroups
    /\ LET s1 == SealAuto(Locals)
       IN  /\ components' = Append(components, Entry(kind, <<>>, 0))
           /\ heap' = s1.heap
           /\ action_rows' = s1.action_rows
           /\ auto_row' = s1.auto_row
    /\ pc' = "raised"
    /\ result' = [status |-> "TypeError", rows |-> <<>>]
    /\ UNCHANGED bare
    /\ UNCHANGED notPackVars

\* ActionRow.__init__(*components) on n objects that have type and to_dict but
\* no width: the isinstance(component, Componentish) test passes, and the
\* first append_item fails in insert_item on item.width.
ActionRow_init_NoWidth(n) ==
    IF n = 0 THEN [raised |-> "", children |-> <<>>]
    ELSE [raised |-> "AttributeError", children |-> <<>>]

\* Loop body, isinstance(component, Sequence), the sequence holding n
\* components of disnake/components.py: action_rows.append(ActionRow(*component)).
IterRawSeq(n) ==
    /\ CanRead
    /\ ~bare
    /\ NumGroups(components) < MaxGroups
    /\ LET s1 == SealAuto(Locals)
           made == ActionRow_init_NoWidth(n)
       IN  /\ made.raised # ""
           /\ components' = Append(components, Entry("rawseq", <<>>, 0))
           /\ heap' = s1.heap
           /\ action_rows' = s1.action_rows
           /\ auto_row' = s1.auto_row
           /\ result' = [status |-> made.raised, rows |-> <<>>]
    /\ pc' = "raised"
    /\ UNCHANGED bare
    /\ UNCHANGED notPackVars

\* After the loop: the auto row is emitted when it holds anything; return.
Return ==
    /\ pc = "loop"
    /\ bare => Len(components) = 1
    /\ LET st == IF ActionRow_width(heap[auto_row]) > 0
                 THEN [Locals EXCEPT !.action_rows = Append(@, auto_row)]
                 ELSE Locals
       IN  /\ action_rows' = st.action_rows
           /\ result' = [status |-> "ok", rows |-> st.action_rows]
    /\ pc' = "done"
    /\ UNCHANGED <<bare, components, heap, auto_row>>
    /\ UNCHANGED notPackVars

NextPack ==
    \/ \E single \in BOOLEAN : Call(single)
    \/ IterItem
    \/ \E n \in RowSizes : IterRow(n)
    \/ \E n \in SeqSizes : IterSeq(n)
    \/ \E kind \in OtherKinds : IterOther(kind)
    \/ \E n \in {1, 2} : IterRawSeq(n)
    \/ Return

-----------------------------------------------------------------------------
\* Properties of components_to_rows.

\* The children lists of the returned rows, in order.
Returned == [j \in DOMAIN result.rows |-> heap[result.rows[j]]]

Sizes(rows) == [j \in DOMAIN rows |-> Len(rows[j])]

\* The total width of a list of children: each child of this model has width 1.
TotalWidth(row) == Len(row)

Range(s) == {s[i] : i \in DOMAIN s}

Kinds == [i \in DOMAIN components |-> components[i].kind]

Flat == \A i \in DOMAIN components : components[i].kind = "item"

\* C1: every row of the list components_to_rows returns has total width
\* (the sum of its children's widths) at most 5.
C1_CapacityInvariant ==
    pc = "done" =>
        \A j \in DOMAIN Returned : TotalWidth(Returned[j]) <= 5

C1_Witness ==
    /\ pc = "done"
    /\ Len(Returned) >= 3
    /\ \E j \in DOMAIN Returned : TotalWidth(Returned[j]) = 5
    /\ "row" \in Range(Kinds)
    /\ "seq" \in Range(Kinds)

\* C2: the children of the returned rows, concatenated row by row, are the
\* flattened input in input order: nothing dropped, duplicated or reordered.
C2_OrderPreserved ==
    pc = "done" => Concat(Returned) = Flatten(components)

C2_Witness ==
    /\ pc = "done"
    /\ Len(Flatten(components)) >= 8
    /\ Len(Returned) >= 3
    /\ {"item", "row", "seq"} \subseteq Range(Kinds)

\* C3: a flat sequence of n width-1 items gives ceil(n/5) rows, all of 5
\* items but the last, which holds the rest; 5 items give one row of 5,
\* 6 items give rows of 5 and 1; a flat input never raises.
C3_FlatPacking ==
    Flat =>
        /\ pc # "raised"
        /\ pc = "done" =>
            LET n == Len(components)
                k == Len(Returned)
            IN  /\ k = (n + 4) \div 5
                /\ \A j \in 1..(k - 1) : Len(Returned[j]) = 5
                /\ k > 0 => Len(Returned[k]) = n - 5 * (k - 1)
                /\ n = 5 => Sizes(Returned) = <<5>>
                /\ n = 6 => Sizes(Returned) = <<5, 1>>

C3_Witness ==
    /\ pc = "done"
    /\ Flat
    /\ Len(components) = 11
    /\ Sizes(Returned) = <<5, 5, 1>>

\* C4: a pre-built row or nested sequence is never merged with the auto-fill
\* row: the group is a row of its own, flat items on the two sides of a group
\* never share a row (a group entry among the entries that contribute to a
\* row is the only contributor, and the row is exactly that group), and
\* [item, item, row(2 items), item] gives rows of sizes 2, 2, 1.
Contributors(row) ==
    {e \in DOMAIN components : Range(components[e].items) \cap Range(row) # {}}

C4_NeverMerged ==
    pc = "done" =>
        /\ \A e \in DOMAIN components : IsGroup(components[e]) =>
               \E j \in DOMAIN Returned : Returned[j] = components[e].items
        /\ \A j \in DOMAIN Returned :
               LET E == Contributors(Returned[j])
               IN  \A e \in DOMAIN components :
                       (IsGroup(components[e]) /\ \E lo, hi \in E : lo <= e /\ e <= hi)
                           => (E = {e} /\ Returned[j] = components[e].items)
        /\ (Kinds = <<"item", "item", "row", "item">> /\ Len(components[3].items) = 2)
               => Sizes(Returned) = <<2, 2, 1>>

C4_Witness ==
    /\ pc = "done"
    /\ Kinds = <<"item", "item", "row", "item">>
    /\ Len(components[3].items) = 2
    /\ Sizes(Returned) = <<2, 2, 1>>

\* C5: a nested sequence of total width above 5 makes the call fail with
\* ValueError; no rows are returned and the group is not split across rows.
C5_NestedOverflowRaises ==
    \A i \in DOMAIN components :
        (components[i].kind = "seq" /\ TotalWidth(components[i].items) > 5)
            => /\ pc = "raised"
               /\ result.status = "ValueError"
               /\ result.rows = <<>>

C5_Witness ==
    /\ pc = "raised"
    /\ result.status = "ValueError"
    /\ Len(components) >= 3
    /\ Len(components[Len(components)].items) = 6
    /\ action_rows # <<>>

\* C6: a pre-built ui.ActionRow of the input is in the output as the same
\* row object, and the packer never changes its children.
C6_PrebuiltRowUntouched ==
    \A i \in DOMAIN components : components[i].kind = "row" =>
        /\ heap[components[i].row] = components[i].items
        /\ pc = "done" =>
               Cardinality({j \in DOMAIN result.rows :
                                result.rows[j] = components[i].row}) = 1

C6_Witness ==
    /\ pc = "done"
    /\ \E i \in DOMAIN components :
           /\ 1 < i /\ i < Len(components)
           /\ components[i].kind = "row"
           /\ Len(components[i].items) = 2
           /\ components[i - 1].kind = "item"
           /\ components[i + 1].kind = "item"
           /\ heap[components[i].row] = components[i].items

\* C22: components_to_rows and the ui.ActionRow constructor accept any object
\* that has type and to_dict (a Button, UrlButton or TextInput of
\* disnake/components.py, a foreign object), bare and inside a nested
\* sequence, and components_to_rows accepts a components.ActionRow as a
\* top-level entry: the call packs them and does not raise.
C22_AcceptsComponentish ==
    pc = "raised" =>
        components[Len(components)].kind \notin {"component", "rawseq", "wire_row"}

\* C30: every row of the list components_to_rows returns holds at least one
\* component, whatever the accepted input: also when it holds an empty nested
\* sequence or an empty pre-built ActionRow.
C30_NoEmptyRow ==
    pc = "done" => \A j \in DOMAIN Returned : Len(Returned[j]) >= 1

-----------------------------------------------------------------------------
\* Values of the codec (disnake/components.py).

\* Optional[T]: None, or a value.
None == <<>>
Some(v) == <<v>>

\* Python truthiness of an Optional[str] and of an Optional[list] or Optional object.
TruthyStr(o) == o # None /\ o[1] # ""
TruthyList(o) == o # None /\ o[1] # <<>>
TruthyObj(o) == o # None

\* dict: payload[k] = v, payload.get(k, default), payload.get(k)
SetItem(d, k, v) == [x \in DOMAIN d \cup {k} |-> IF x = k THEN v ELSE d[x]]
get(d, k, default) == IF k \in DOMAIN d THEN d[k] ELSE default
get_opt(d, k) == IF k \in DOMAIN d THEN Some(d[k]) ELSE None
Restrict(d, keys) == [x \in keys |-> d[x]]

\* enums.try_enum and the value of an enum member.
try_enum(enum, value) == [enum |-> enum, value |-> value]

\* PartialEmoji objects and their payloads.
UnicodeEmoji == [name |-> "fire", id |-> None, animated |-> FALSE]
CustomEmoji == [name |-> "blob", id |-> Some(7), animated |-> TRUE]

PartialEmoji_to_dict(e) ==
    LET p == [name |-> e.name, animated |-> e.animated]
    IN  IF e.id # None THEN SetItem(p, "id", e.id[1]) ELSE p

PartialEmoji_from_dict(d) ==
    [name |-> d.name, id |-> get_opt(d, "id"), animated |-> get(d, "animated", FALSE)]

\* utils.assert_never: the exhaustiveness check fires whenever it is reached.
assert_never(arg) == [raised |-> TRUE]

\* ComponentType values of the component classes (the class attribute type).
ComponentTypeOf(cls) ==
    CASE cls = "ActionRow" -> 1
      [] cls = "Button" -> 2
      [] cls = "UrlButton" -> 2
      [] cls = "StringSelectMenu" -> 3
      [] cls = "TextInput" -> 4
      [] cls = "UserSelectMenu" -> 5
      [] cls = "RoleSelectMenu" -> 6
      [] cls = "MentionableSelectMenu" -> 7
      [] cls = "ChannelSelectMenu" -> 8

\* ButtonStyle.url.value and TextInputStyle.short.value
ButtonStyle_url == 5
TextInputStyle_short == 1

-----------------------------------------------------------------------------
\* to_dict of every variant.

UrlButton_to_dict(c) ==
    LET p0 == [type |-> ComponentTypeOf("Button"), style |-> ButtonStyle_url,
               url |-> c.url, disabled |-> c.disabled]
        p1 == IF TruthyStr(c.label) THEN SetItem(p0, "label", c.label[1]) ELSE p0
    IN  IF TruthyObj(c.emoji) THEN SetItem(p1, "emoji", PartialEmoji_to_dict(c.emoji[1])) ELSE p1

Button_to_dict(c) ==
    LET p0 == [type |-> 2, style |-> c.style.value,
               custom_id |-> c.custom_id, disabled |-> c.disabled]
        p1 == IF TruthyStr(c.label) THEN SetItem(p0, "label", c.label[1]) ELSE p0
    IN  IF TruthyObj(c.emoji) THEN SetItem(p1, "emoji", PartialEmoji_to_dict(c.emoji[1])) ELSE p1

BaseSelectMenu_to_dict_NotNone(c) ==
    LET p0 == [type |-> ComponentTypeOf(c.cls), custom_id |-> c.custom_id,
               min_values |-> c.min_values, max_values |-> c.max_values,
               disabled |-> c.disabled]
    IN  IF c.placeholder # None THEN SetItem(p0, "placeholder", c.placeholder[1]) ELSE p0

BaseSelectMenu_to_dict(c) ==
    LET p0 == [type |-> ComponentTypeOf(c.cls), custom_id |-> c.custom_id,
               min_values |-> c.min_values, max_values |-> c.max_values,
               disabled |-> c.disabled]
    IN  IF TruthyStr(c.placeholder) THEN SetItem(p0, "placeholder", c.placeholder[1]) ELSE p0

SelectOption_to_dict(o) ==
    LET p0 == [label |-> o.label, value |-> o.value, default |-> o.default]
        p1 == IF TruthyObj(o.emoji) THEN SetItem(p0, "emoji", PartialEmoji_to_dict(o.emoji[1])) ELSE p0
    IN  IF TruthyStr(o.description) THEN SetItem(p1, "description", o.description[1]) ELSE p1

StringSelectMenu_to_dict(c) ==
    LET p0 == BaseSelectMenu_to_dict(c)
        p1 == SetItem(p0, "type", 3)
    IN  SetItem(p1, "options", [i \in DOMAIN c.options |-> SelectOption_to_dict(c.options[i])])

ChannelSelectMenu_to_dict(c) ==
    LET p0 == BaseSelectMenu_to_dict(c)
        p1 == SetItem(p0, "type", 8)
    IN  IF TruthyList(c.channel_types)
        THEN SetItem(p1, "channel_types",
                     [i \in DOMAIN c.channel_types[1] |-> c.channel_types[1][i].value])
        ELSE p1

TextInput_to_dict_Truthy(c) ==
    LET p0 == [type |-> ComponentTypeOf("TextInput"), style |-> c.style.value,
               label |-> c.label[1], custom_id |-> c.custom_id, required |-> c.required]
        p1 == IF c.placeholder # None THEN SetItem(p0, "placeholder", c.placeholder[1]) ELSE p0
        p2 == IF TruthyStr(c.value) THEN SetItem(p1, "value", c.value[1]) ELSE p1
        p3 == IF c.min_length # None THEN SetItem(p2, "min_length", c.min_length[1]) ELSE p2
    IN  IF c.max_length # None THEN SetItem(p3, "max_length", c.max_length[1]) ELSE p3

TextInput_to_dict(c) ==
    LET p0 == [type |-> ComponentTypeOf("TextInput"), style |-> c.style.value,
               label |-> c.label[1], custom_id |-> c.custom_id, required |-> c.required]
        p1 == IF c.placeholder # None THEN SetItem(p0, "placeholder", c.placeholder[1]) ELSE p0
        p2 == IF c.value # None THEN SetItem(p1, "value", c.value[1]) ELSE p1
        p3 == IF c.min_length # None THEN SetItem(p2, "min_length", c.min_length[1]) ELSE p2
    IN  IF c.max_length # None THEN SetItem(p3, "max_length", c.max_length[1]) ELSE p3

\* x.to_dict(), by the class of x; ActionRow.to_dict encodes every child.
RECURSIVE to_dict(_)
to_dict(c) ==
    CASE c.cls = "ActionRow" ->
             [type |-> ComponentTypeOf("ActionRow"),
              components |-> [i \in DOMAIN c.children |-> to_dict(c.children[i])]]
      [] c.cls = "UrlButton" -> UrlButton_to_dict(c)
      [] c.cls = "Button" -> Button_to_dict(c)
      [] c.cls = "StringSelectMenu" -> StringSelectMenu_to_dict(c)
      [] c.cls = "ChannelSelectMenu" -> ChannelSelectMenu_to_dict(c)
      [] c.cls = "TextInput" -> TextInput_to_dict(c)
      [] OTHER -> BaseSelectMenu_to_dict(c)

-----------------------------------------------------------------------------
\* from_payload of every variant, and the factory.

UrlButton_from_payload(p) ==
    [cls |-> "UrlButton",
     url |-> p.url,
     disabled |-> get(p, "disabled", FALSE),
     label |-> get_opt(p, "label"),
     emoji |-> IF "emoji" \in DOMAIN p THEN Some(PartialEmoji_from_dict(p.emoji)) ELSE None]

Button_from_payload(p) ==
    [cls |-> "Button",
     style |-> try_enum("ButtonStyle", p.style),
     custom_id |-> p.custom_id,
     disabled |-> get(p, "disabled", FALSE),
     label |-> get_opt(p, "label"),
     emoji |-> IF "emoji" \in DOMAIN p THEN Some(PartialEmoji_from_dict(p.emoji)) ELSE None]

BaseSelectMenu_from_payload_Max25(cls, p) ==
    [cls |-> cls,
     custom_id |-> p.custom_id,
     placeholder |-> get_opt(p, "placeholder"),
     min_values |-> get(p, "min_values", 1),
     max_values |-> get(p, "max_values", 25),
     disabled |-> get(p, "disabled", FALSE)]

BaseSelectMenu_from_payload(cls, p) ==
    [cls |-> cls,
     custom_id |-> p.custom_id,
     placeholder |-> get_opt(p, "placeholder"),
     min_values |-> get(p, "min_values", 1),
     max_values |-> get(p, "max_values", 1),
     disabled |-> get(p, "disabled", FALSE)]

SelectOption_from_dict(d) ==
    [label |-> d.label,
     value |-> d.value,
     description |-> get_opt(d, "description"),
     emoji |-> IF "emoji" \in DOMAIN d THEN Some(PartialEmoji_from_dict(d.emoji)) ELSE None,
     default |-> get(d, "default", FALSE)]

StringSelectMenu_from_payload(p) ==
    LET self == BaseSelectMenu_from_payload("StringSelectMenu", p)
        opts == get(p, "options", <<>>)
    IN  SetItem(self, "options", [i \in DOMAIN opts |-> SelectOption_from_dict(opts[i])])

ChannelSelectMenu_from_payload(p) ==
    LET channel_types == get_opt(p, "channel_types")
        self == BaseSelectMenu_from_payload("ChannelSelectMenu", p)
    IN  SetItem(self, "channel_types",
                IF TruthyList(channel_types)
                THEN Some([i \in DOMAIN channel_types[1] |->
                               try_enum("ChannelType", channel_types[1][i])])
                ELSE None)

TextInput_from_payload_Optional(p) ==
    LET style == get(p, "style", TextInputStyle_short)
    IN  [cls |-> "TextInput",
         custom_id |-> p.custom_id,
         style |-> try_enum("TextInputStyle", style),
         label |-> Some(p.label),
         placeholder |-> get_opt(p, "placeholder"),
         value |-> get_opt(p, "value"),
         required |-> get(p, "required", FALSE),
         min_length |-> get_opt(p, "min_length"),
         max_length |-> get_opt(p, "max_length")]

TextInput_from_payload(p) ==
    LET style == get(p, "style", TextInputStyle_short)
    IN  [cls |-> "TextInput",
         custom_id |-> p.custom_id,
         style |-> try_enum("TextInputStyle", style),
         label |-> Some(p.label),
         placeholder |-> get_opt(p, "placeholder"),
         value |-> get_opt(p, "value"),
         required |-> get(p, "required", TRUE),
         min_length |-> get_opt(p, "min_length"),
         max_length |-> get_opt(p, "max_length")]

\* What a call gives when it raises instead of returning a component.
Raised == [cls |-> "raised"]

\* Component._raw_construct(type=...): Component has no slots, nothing is set.
Component_raw_construct == [cls |-> "Component"]

\* The branch of _component_factory a payload takes.
FactoryTarget_Swapped(data) ==
    LET component_type == data.type
    IN  CASE component_type = 1 -> "ActionRow"
          [] component_type = 2 -> IF "url" \in DOMAIN data THEN "UrlButton" ELSE "Button"
          [] component_type = 3 -> "StringSelectMenu"
          [] component_type = 4 -> "TextInput"
          [] component_type = 5 -> "RoleSelectMenu"
          [] component_type = 6 -> "UserSelectMenu"
          [] component_type = 7 -> "MentionableSelectMenu"
          [] component_type = 8 -> "ChannelSelectMenu"
          [] OTHER -> "unknown"

FactoryTarget_OpenEnded(data) ==
    LET component_type == data.type
    IN  CASE component_type = 1 -> "ActionRow"
          [] component_type = 2 -> IF "url" \in DOMAIN data THEN "UrlButton" ELSE "Button"
          [] component_type = 3 -> "StringSelectMenu"
          [] component_type = 4 -> "TextInput"
          [] component_type = 5 -> "UserSelectMenu"
          [] component_type = 6 -> "RoleSelectMenu"
          [] component_type = 7 -> "MentionableSelectMenu"
          [] component_type >= 8 -> "ChannelSelectMenu"
          [] OTHER -> "unknown"

FactoryTarget(data) ==
    LET component_type == data.type
    IN  CASE component_type = 1 -> "ActionRow"
          [] component_type = 2 -> IF "url" \in DOMAIN data THEN "UrlButton" ELSE "Button"
          [] component_type = 3 -> "StringSelectMenu"
          [] component_type = 4 -> "TextInput"
          [] component_type = 5 -> "UserSelectMenu"
          [] component_type = 6 -> "RoleSelectMenu"
          [] component_type = 7 -> "MentionableSelectMenu"
          [] component_type = 8 -> "ChannelSelectMenu"
          [] OTHER -> "unknown"

\* _component_factory(data); ActionRow.from_payload decodes every child with
\* the factory, and a child that raises makes the whole call raise.
RECURSIVE _component_factory(_)
_component_factory(data) ==
    LET target == FactoryTarget(data)
    IN  CASE target = "ActionRow" ->
                 LET comps == get(data, "components", <<>>)
                     children == [i \in DOMAIN comps |-> _component_factory(comps[i])]
                 IN  IF \E i \in DOMAIN children : children[i] = Raised
                     THEN Raised
                     ELSE [cls |-> "ActionRow", children |-> children]
          [] target = "UrlButton" -> UrlButton_from_payload(data)
          [] target = "Button" -> Button_from_payload(data)
          [] target = "StringSelectMenu" -> StringSelectMenu_from_payload(data)
          [] target = "TextInput" -> TextInput_from_payload(data)
          [] target = "ChannelSelectMenu" -> ChannelSelectMenu_from_payload(data)
          [] target \in {"UserSelectMenu", "RoleSelectMenu", "MentionableSelectMenu"} ->
                 BaseSelectMenu_from_payload(target, data)
          [] OTHER ->
                 IF assert_never(data.type).raised
                 THEN Raised
                 ELSE Component_raw_construct

-----------------------------------------------------------------------------
\* The component instances and the wire objects the codec is run on.

\* Most options of a StringSelectMenu, most children of an ActionRow component.
MaxOptions == 1
MaxChildren == 1

SeqsUpTo(S, n) == UNION {[1..k -> S] : k \in 0..n}

OptStrs == {None, Some(""), Some("ok")}
OptEmojis == {None, Some(UnicodeEmoji), Some(CustomEmoji)}

\* Button(style, custom_id, disabled, label, emoji)
Buttons ==
    {[cls |-> "Button", style |-> try_enum("ButtonStyle", s), custom_id |-> "id",
      disabled |-> d, label |-> l, emoji |-> e] :
        s \in 1..5, d \in BOOLEAN, l \in OptStrs, e \in OptEmojis}

\* UrlButton(url, disabled, label, emoji)
UrlButtons ==
    {[cls |-> "UrlButton", url |-> "https://u", disabled |-> d, label |-> l, emoji |-> e] :
        d \in BOOLEAN, l \in OptStrs, e \in OptEmojis}

\* BaseSelectMenu(custom_id, placeholder, min_values, max_values, disabled)
BaseSelectMenus(cls) ==
    {[cls |-> cls, custom_id |-> "id", placeholder |-> ph, min_values |-> mn,
      max_values |-> mx, disabled |-> d] :
        ph \in OptStrs, mn \in {1, 2}, mx \in {1, 25}, d \in BOOLEAN}

\* SelectOption(label, value, description, emoji, default)
SelectOptions ==
    {[label |-> "l", value |-> "v", description |-> ds, emoji |-> e, default |-> df] :
        ds \in OptStrs, e \in {None, Some(UnicodeEmoji)}, df \in BOOLEAN}

\* StringSelectMenu(..., options)
StringSelectMenus ==
    {SetItem(b, "options", os) :
        b \in BaseSelectMenus("StringSelectMenu"), os \in SeqsUpTo(SelectOptions, MaxOptions)}

\* ChannelSelectMenu(..., channel_types)
ChannelSelectMenus ==
    {SetItem(b, "channel_types", ct) :
        b \in BaseSelectMenus("ChannelSelectMenu"),
        ct \in {None, Some(<<>>),
                Some(<<try_enum("ChannelType", 0), try_enum("ChannelType", 2)>>)}}

\* TextInput(custom_id, label, style, placeholder, value, required, min_length, max_length)
TextInputs ==
    {[cls |-> "TextInput", custom_id |-> "id", style |-> try_enum("TextInputStyle", s),
      label |-> Some(l), placeholder |-> ph, value |-> v, required |-> r,
      min_length |-> mn, max_length |-> mx] :
        s \in {1, 2}, l \in {"", "t"}, ph \in OptStrs, v \in OptStrs, r \in BOOLEAN,
        mn \in {None, Some(0), Some(3)}, mx \in {None, Some(9)}}

LeafComponents ==
    Buttons \cup UrlButtons \cup BaseSelectMenus("UserSelectMenu")
        \cup BaseSelectMenus("RoleSelectMenu") \cup BaseSelectMenus("MentionableSelectMenu")
        \cup StringSelectMenus \cup ChannelSelectMenus \cup TextInputs

\* The children the ActionRow components are built from.
ChildPool ==
    {b \in Buttons : b.style.value = 1 /\ ~b.disabled /\ b.emoji # Some(CustomEmoji)}
        \cup {u \in UrlButtons : u.disabled /\ u.emoji = None}
        \cup {m \in BaseSelectMenus("RoleSelectMenu") :
                  m.min_values = 2 /\ m.max_values = 25 /\ ~m.disabled}
        \cup {m \in StringSelectMenus : m.min_values = 1 /\ m.max_values = 1 /\ m.disabled
                  /\ m.placeholder = None /\ m.options = <<>>}
        \cup {m \in ChannelSelectMenus : m.min_values = 1 /\ m.max_values = 1 /\ m.disabled
                  /\ m.placeholder = None}
        \cup {t \in TextInputs : t.style.value = 2 /\ t.label = Some("t") /\ t.value = None
                  /\ t.min_length = None /\ t.max_length = None /\ t.required}

\* ActionRow(children)
\* components.ActionRow.__init__(children): self.children = children.
ComponentActionRow_init(children) == [cls |-> "ActionRow", children |-> children]

\* A row payload of six buttons, and the six button components of a row.
WideRowPayload ==
    [type |-> 1,
     components |-> [i \in 1..(MaxWidth + 1) |-> [type |-> 2, style |-> 1, custom_id |-> "id"]]]

WideChildren ==
    [i \in 1..(MaxWidth + 1) |-> Button_from_payload(WideRowPayload.components[i])]

ActionRows ==
    {ComponentActionRow_init(cs) : cs \in SeqsUpTo(ChildPool, MaxChildren) \cup {WideChildren}}

ComponentSet == LeafComponents \cup ActionRows

\* Payloads as the payload types of disnake/types/components.py allow them:
\* the required keys, and every subset of the NotRequired keys.
EmojiPayloads == {PartialEmoji_to_dict(UnicodeEmoji), PartialEmoji_to_dict(CustomEmoji)}

ButtonPayloads ==
    {Restrict([type |-> 2, style |-> s, custom_id |-> "id", disabled |-> d,
               label |-> l, emoji |-> e],
              {"type", "style", "custom_id"} \cup K) :
        s \in 1..4, d \in BOOLEAN, l \in {"", "ok"}, e \in EmojiPayloads,
        K \in SUBSET {"disabled", "label", "emoji"}}

UrlButtonPayloads ==
    {Restrict([type |-> 2, style |-> 5, url |-> "https://u", disabled |-> d,
               label |-> l, emoji |-> e],
              {"type", "style", "url"} \cup K) :
        d \in BOOLEAN, l \in {"", "ok"}, e \in {PartialEmoji_to_dict(CustomEmoji)},
        K \in SUBSET {"disabled", "label", "emoji"}}

SelectMenuPayloads(type) ==
    {Restrict([type |-> type, custom_id |-> "id", placeholder |-> ph, min_values |-> 2,
               max_values |-> 25, disabled |-> d],
              {"type", "custom_id"} \cup K) :
        ph \in {"", "ok"}, d \in BOOLEAN,
        K \in SUBSET {"placeholder", "min_values", "max_values", "disabled"}}

SelectOptionPayloads ==
    {Restrict([label |-> "l", value |-> "v", description |-> ds,
               emoji |-> PartialEmoji_to_dict(UnicodeEmoji), default |-> df],
              {"label", "value"} \cup K) :
        ds \in {"", "d"}, df \in BOOLEAN, K \in SUBSET {"description", "emoji", "default"}}

StringSelectMenuPayloads ==
    {SetItem(b, "options", os) :
        b \in SelectMenuPayloads(3), os \in SeqsUpTo(SelectOptionPayloads, MaxOptions)}

ChannelSelectMenuPayloads ==
    {IF ct = None THEN b ELSE SetItem(b, "channel_types", ct[1]) :
        b \in SelectMenuPayloads(8), ct \in {None, Some(<<>>), Some(<<0, 2>>)}}

TextInputPayloads ==
    {Restrict([type |-> 4, custom_id |-> "id", style |-> s, label |-> "t",
               min_length |-> 0, max_length |-> 9, required |-> r, value |-> v,
               placeholder |-> ph],
              {"type", "custom_id", "style", "label"} \cup K) :
        s \in {1, 2}, r \in BOOLEAN, v \in {"", "x"}, ph \in {"", "ok"},
        K \in SUBSET {"min_length", "max_length", "required", "value", "placeholder"}}

\* Payloads whose type is none of 1..8.
UnknownPayloads == {[type |-> t, custom_id |-> "id"] : t \in {0, 9, 99}}

LeafPayloads ==
    ButtonPayloads \cup UrlButtonPayloads \cup SelectMenuPayloads(5)
        \cup SelectMenuPayloads(6) \cup SelectMenuPayloads(7)
        \cup StringSelectMenuPayloads \cup ChannelSelectMenuPayloads \cup TextInputPayloads

\* The payloads the rows of ActionRowPayloads hold.
PayloadPool ==
    {to_dict(c) : c \in ChildPool}
        \cup {[type |-> 2, style |-> 3, custom_id |-> "id"],
              [type |-> 2, style |-> 5, url |-> "https://u"],
              [type |-> 6, custom_id |-> "id"],
              [type |-> 3, custom_id |-> "id", options |-> <<>>],
              [type |-> 4, custom_id |-> "id", style |-> 1, label |-> "t"],
              [type |-> 99, custom_id |-> "id"]}

ActionRowPayloads ==
    {[type |-> 1, components |-> cs] : cs \in SeqsUpTo(PayloadPool, MaxChildren)}
        \cup {WideRowPayload}

WireSet == LeafPayloads \cup ActionRowPayloads \cup UnknownPayloads

-----------------------------------------------------------------------------
\* A codec run: a component is constructed, encoded and decoded again, or a
\* payload is received, decoded and encoded again.

NoComponent == [cls |-> "none"]
NoWire == [type |-> -1]

InitCodec ==
    /\ cd_pc = "init"
    /\ cd_x = NoComponent
    /\ cd_w = NoWire
    /\ cd_y = NoComponent
    /\ cd_w2 = NoWire

\* A component is constructed.
Construct ==
    /\ cd_pc = "init"
    /\ \E x \in ComponentSet : cd_x' = x
    /\ cd_pc' = "built"
    /\ UNCHANGED <<cd_w, cd_y, cd_w2>>
    /\ UNCHANGED notCodecVars

\* A payload arrives.
Receive ==
    /\ cd_pc = "init"
    /\ \E w \in WireSet : cd_w' = w
    /\ cd_pc' = "received"
    /\ UNCHANGED <<cd_x, cd_y, cd_w2>>
    /\ UNCHANGED notCodecVars

\* x.to_dict()
Encode ==
    /\ cd_pc = "built"
    /\ cd_w' = to_dict(cd_x)
    /\ cd_pc' = "encoded"
    /\ UNCHANGED <<cd_x, cd_y, cd_w2>>
    /\ UNCHANGED notCodecVars

\* _component_factory(w)
Decode ==
    /\ cd_pc \in {"encoded", "received"}
    /\ LET y == _component_factory(cd_w)
       IN  IF y = Raised
           THEN cd_pc' = "raised" /\ UNCHANGED cd_y
           ELSE cd_y' = y /\ cd_pc' = (IF cd_pc = "encoded" THEN "roundtrip" ELSE "decoded")
    /\ UNCHANGED <<cd_x, cd_w, cd_w2>>
    /\ UNCHANGED notCodecVars

\* _component_factory(w).to_dict()
Reencode ==
    /\ cd_pc = "decoded"
    /\ cd_w2' = to_dict(cd_y)
    /\ cd_pc' = "reencoded"
    /\ UNCHANGED <<cd_x, cd_w, cd_y>>
    /\ UNCHANGED notCodecVars

NextCodec ==
    \/ Construct
    \/ Receive
    \/ Encode
    \/ Decode
    \/ Reencode

-----------------------------------------------------------------------------
\* Properties of the codec.

Decoded == cd_pc \in {"decoded", "reencoded", "roundtrip"}

\* Whether a payload, or a payload inside a row payload, has a type outside 1..8.
HasUnknownTag(w) ==
    \/ w.type \notin 1..8
    \/ /\ w.type = 1
       /\ "components" \in DOMAIN w
       /\ \E i \in DOMAIN w.components : w.components[i].type \notin 1..8

\* C7: _component_factory maps the type tag to the variant: 1 ActionRow,
\* 2 UrlButton when the payload has a url key and Button otherwise,
\* 3 StringSelectMenu, 4 TextInput, 5 UserSelectMenu, 6 RoleSelectMenu,
\* 7 MentionableSelectMenu, 8 ChannelSelectMenu.
C7_FactoryDispatch ==
    /\ Decoded =>
           cd_y.cls = CASE cd_w.type = 1 -> "ActionRow"
                        [] cd_w.type = 2 /\ "url" \in DOMAIN cd_w -> "UrlButton"
                        [] cd_w.type = 2 /\ "url" \notin DOMAIN cd_w -> "Button"
                        [] cd_w.type = 3 -> "StringSelectMenu"
                        [] cd_w.type = 4 -> "TextInput"
                        [] cd_w.type = 5 -> "UserSelectMenu"
                        [] cd_w.type = 6 -> "RoleSelectMenu"
                        [] cd_w.type = 7 -> "MentionableSelectMenu"
                        [] cd_w.type = 8 -> "ChannelSelectMenu"
                        [] OTHER -> "no variant"
    /\ (cd_pc = "raised") => HasUnknownTag(cd_w)

C7_Witness ==
    /\ cd_pc = "decoded"
    /\ cd_w.type = 2
    /\ "url" \in DOMAIN cd_w
    /\ "label" \notin DOMAIN cd_w
    /\ cd_y.cls = "UrlButton"

\* C8: a payload whose type tag is outside 1..8 makes _component_factory fail;
\* no component is returned for it.
C8_UnknownTagFails ==
    (cd_w # NoWire /\ cd_w.type \notin 1..8) =>
        /\ cd_pc \in {"received", "raised"}
        /\ cd_y = NoComponent

C8_Witness ==
    /\ cd_pc = "raised"
    /\ cd_w.type = 99
    /\ cd_y = NoComponent

\* x with every empty label (buttons), placeholder (select menus), option
\* description and channel_types replaced by None.
EmptyStrToNone(o) == IF o = Some("") THEN None ELSE o

RECURSIVE EmptiesToNone(_)
EmptiesToNone(x) ==
    CASE x.cls = "ActionRow" ->
             [x EXCEPT !.children = [i \in DOMAIN @ |-> EmptiesToNone(@[i])]]
      [] x.cls \in {"Button", "UrlButton"} ->
             [x EXCEPT !.label = EmptyStrToNone(@)]
      [] x.cls = "StringSelectMenu" ->
             [x EXCEPT !.placeholder = EmptyStrToNone(@),
                       !.options = [i \in DOMAIN @ |->
                                        [@[i] EXCEPT !.description = EmptyStrToNone(@)]]]
      [] x.cls = "ChannelSelectMenu" ->
             [x EXCEPT !.placeholder = EmptyStrToNone(@),
                       !.channel_types = IF @ = Some(<<>>) THEN None ELSE @]
      [] x.cls = "TextInput" -> x
      [] OTHER -> [x EXCEPT !.placeholder = EmptyStrToNone(@)]

\* C9 as claimed: decoding the encoding of any instance x gives x again,
\* field for field, also when optional fields hold empty values.
C9_RoundTripAsClaimed ==
    cd_pc = "roundtrip" => cd_y = cd_x

\* C9, amended: decoding the encoding of x never raises and gives a component
\* of the same variant with the fields of x, except that an empty label of a
\* button, an empty placeholder of a select menu, an empty description of a
\* select option and an empty channel_types list come back as None; so the
\* round trip is exact for every x that holds no such empty value.
C9_RoundTrip ==
    /\ cd_pc = "roundtrip" =>
           /\ cd_y.cls = cd_x.cls
           /\ cd_y = EmptiesToNone(cd_x)
           /\ EmptiesToNone(cd_x) = cd_x => cd_y = cd_x
    /\ cd_x # NoComponent => cd_pc # "raised"

C9_Witness ==
    /\ cd_pc = "roundtrip"
    /\ cd_x.cls = "StringSelectMenu"
    /\ cd_x.placeholder = Some("ok")
    /\ Len(cd_x.options) = 1
    /\ cd_x.options[1].description = Some("ok")
    /\ cd_y = cd_x

\* The keys to_dict leaves out when their value is empty, by the payload read.
DroppedWhenEmpty(w, k) ==
    \/ k = "label" /\ "type" \in DOMAIN w /\ w.type = 2 /\ w[k] = ""
    \/ k = "placeholder" /\ "type" \in DOMAIN w /\ w.type \in {3, 5, 6, 7, 8} /\ w[k] = ""
    \/ k = "description" /\ "type" \notin DOMAIN w /\ w[k] = ""
    \/ k = "channel_types" /\ w[k] = <<>>

\* The keys to_dict always writes, holding the default of the decoder.
IsDefaultOf(k, v) ==
    CASE k = "disabled" -> v = FALSE
      [] k = "min_values" -> v = 1
      [] k = "max_values" -> v = 1
      [] k = "required" -> v = TRUE
      [] k = "default" -> v = FALSE
      [] OTHER -> FALSE

\* w2 is w again, but for empty values dropped and defaults written out; an
\* emoji is the emoji of w as PartialEmoji writes it.
RECURSIVE Reproduces(_, _)
Reproduces(w, w2) ==
    /\ \A k \in DOMAIN w2 \ DOMAIN w : IsDefaultOf(k, w2[k])
    /\ \A k \in DOMAIN w :
           IF k \in {"components", "options"}
           THEN /\ k \in DOMAIN w2
                /\ Len(w2[k]) = Len(w[k])
                /\ \A i \in DOMAIN w[k] : Reproduces(w[k][i], w2[k][i])
           ELSE IF DroppedWhenEmpty(w, k)
                THEN k \notin DOMAIN w2
                ELSE /\ k \in DOMAIN w2
                     /\ w2[k] = IF k = "emoji"
                                THEN PartialEmoji_to_dict(PartialEmoji_from_dict(w[k]))
                                ELSE w[k]

\* C10 as claimed: encoding the decoding of a payload w gives w again, the
\* optional keys absent from w still absent.
C10_ReencodeAsClaimed ==
    cd_pc = "reencoded" => cd_w2 = cd_w

\* C10, amended: encoding the decoding of a payload w keeps every key of w
\* with its value (an emoji as PartialEmoji re-encodes it), except a key
\* holding an empty label (buttons), placeholder (select menus), description
\* or channel_types, which is dropped; the only
\* keys it adds are disabled, min_values, max_values, required and default,
\* each with the decoder's default (false, 1, 1, true, false); label, emoji,
\* placeholder, description, channel_types, value, min_length and max_length
\* absent from w stay absent.
C10_Reencode ==
    cd_pc = "reencoded" => Reproduces(cd_w, cd_w2)

C10_Witness ==
    /\ cd_pc = "reencoded"
    /\ DOMAIN cd_w = {"type", "custom_id"}
    /\ cd_w.type = 5
    /\ DOMAIN cd_w2 = {"type", "custom_id", "min_values", "max_values", "disabled"}
    /\ cd_w2.disabled = FALSE

\* The fields of y that the payload w has no key for hold the default.
AbsentIs(w, y, k, default) == k \notin DOMAIN w => y[k] = default

RECURSIVE DefaultsFilled(_, _)
DefaultsFilled(w, y) ==
    CASE w.type = 1 ->
             /\ Len(y.children) = Len(w.components)
             /\ \A i \in DOMAIN w.components : DefaultsFilled(w.components[i], y.children[i])
      [] w.type = 2 ->
             /\ AbsentIs(w, y, "disabled", FALSE)
             /\ AbsentIs(w, y, "label", None)
             /\ AbsentIs(w, y, "emoji", None)
      [] w.type \in {3, 5, 6, 7, 8} ->
             /\ AbsentIs(w, y, "min_values", 1)
             /\ AbsentIs(w, y, "max_values", 1)
             /\ AbsentIs(w, y, "disabled", FALSE)
      [] w.type = 4 ->
             /\ AbsentIs(w, y, "required", TRUE)
             /\ AbsentIs(w, y, "min_length", None)
             /\ AbsentIs(w, y, "max_length", None)
             /\ AbsentIs(w, y, "value", None)
             /\ AbsentIs(w, y, "placeholder", None)
      [] OTHER -> FALSE

\* C11: decoding a payload with a known tag never raises because an optional
\* key is absent, and the field of an absent key holds the default: select
\* menus min_values 1, max_values 1, disabled false; buttons disabled false,
\* label None, emoji None; text inputs required true and min_length,
\* max_length, value, placeholder None.
C11_DecodeDefaults ==
    /\ (cd_pc = "raised") => HasUnknownTag(cd_w)
    /\ (cd_pc \in {"decoded", "reencoded"}) => DefaultsFilled(cd_w, cd_y)

C11_Witness ==
    /\ cd_pc = "decoded"
    /\ cd_w.type = 4
    /\ DOMAIN cd_w = {"type", "custom_id", "style", "label"}
    /\ cd_y.required = TRUE
    /\ cd_y.value = None

\* Whether the key k is written exactly when present holds.
KeyIff(w, k, present) == (k \in DOMAIN w) <=> present

\* to_dict writes the keys of the optional values of x exactly when the value
\* is truthy; textInputToo says whether that is asked of the label and the
\* placeholder of a TextInput as well.
RECURSIVE OmitsFalsy(_, _, _)
OmitsFalsy(x, w, textInputToo) ==
    CASE x.cls = "ActionRow" ->
             \A i \in DOMAIN x.children :
                 OmitsFalsy(x.children[i], w.components[i], textInputToo)
      [] x.cls \in {"Button", "UrlButton"} ->
             /\ KeyIff(w, "label", TruthyStr(x.label))
             /\ KeyIff(w, "emoji", TruthyObj(x.emoji))
      [] x.cls = "TextInput" ->
             IF textInputToo
             THEN /\ KeyIff(w, "placeholder", TruthyStr(x.placeholder))
                  /\ KeyIff(w, "label", TruthyStr(x.label))
             ELSE /\ KeyIff(w, "placeholder", x.placeholder # None)
                  /\ "label" \in DOMAIN w
      [] OTHER ->
             /\ KeyIff(w, "placeholder", TruthyStr(x.placeholder))
             /\ x.cls = "ChannelSelectMenu" =>
                    KeyIff(w, "channel_types", TruthyList(x.channel_types))
             /\ x.cls = "StringSelectMenu" =>
                    \A i \in DOMAIN x.options :
                        /\ KeyIff(w.options[i], "description",
                                  TruthyStr(x.options[i].description))
                        /\ KeyIff(w.options[i], "emoji", TruthyObj(x.options[i].emoji))

\* C12 as claimed: to_dict leaves out label, emoji, placeholder, description
\* and channel_types whenever the value is falsy and writes them whenever it
\* is truthy, for every variant, the TextInput included.
C12_OmitsFalsyAsClaimed ==
    cd_pc = "encoded" => OmitsFalsy(cd_x, cd_w, TRUE)

\* C12, amended: to_dict leaves out the label and emoji of a button, the
\* placeholder of a select menu, the description and emoji of a select option
\* and the channel_types of a channel select whenever the value is falsy, and
\* writes them whenever it is truthy; a TextInput's placeholder is left out
\* only when it is None (an empty string is written) and its label is always
\* written.
C12_OmitsFalsy ==
    cd_pc = "encoded" => OmitsFalsy(cd_x, cd_w, FALSE)

C12_Witness ==
    /\ cd_pc = "encoded"
    /\ cd_x.cls = "TextInput"
    /\ cd_x.placeholder = Some("")
    /\ "placeholder" \in DOMAIN cd_w
    /\ cd_w.placeholder = ""

\* C23: a components.ActionRow, built by its constructor or decoded by
\* from_payload through _component_factory, holds at most 5 children (building
\* or decoding more fails at that point), so to_dict of a row never emits
\* more than 5 components.
C23_WireRowCapacity ==
    /\ cd_x.cls = "ActionRow" => Len(cd_x.children) <= 5
    /\ cd_y.cls = "ActionRow" => Len(cd_y.children) <= 5
    /\ (cd_pc \in {"encoded", "roundtrip"} /\ cd_w.type = 1) => Len(cd_w.components) <= 5
    /\ (cd_pc = "reencoded" /\ cd_w2.type = 1) => Len(cd_w2.components) <= 5

-----------------------------------------------------------------------------
\* ui.Button and ui.UrlButton (disnake/ui/button.py, disnake/ui/item.py).

\* Most component instances of one run: the one the constructor builds and
\* those handed to refresh_component.
MaxInstances == 3

NoItem == [cls |-> "none"]

\* os.urandom(16).hex(): 32 hexadecimal digits.
GeneratedId == "3f9a1c07e2b84d65a0c1f7e39b2d4c68"

\* The row arguments tried: None, and the integers -1..5.
RowHints == {None} \cup {Some(r) : r \in -1..5}

\* The ButtonStyle members tried: primary, success, url.
ButtonStyles == {try_enum("ButtonStyle", v) : v \in {1, 3, ButtonStyle_url}}

\* A component as the instance number oid.
Instance(c, oid) == SetItem(c, "oid", oid)

\* What an operation of an item gives: whether it raised, and the item after it.
Done(self) == [raised |-> FALSE, self |-> self]
Fails(self) == [raised |-> TRUE, self |-> self]

\* Item.__init__
Item_init(cls) == [cls |-> cls, underlying |-> NoComponent, row |-> None, provided |-> FALSE]

\* Item.row setter
Item_row_set_Clamp(self, value) ==
    IF value = None
    THEN Done([self EXCEPT !.row = None])
    ELSE IF 5 > value[1] /\ value[1] >= 0
         THEN Done([self EXCEPT !.row = value])
         ELSE Done([self EXCEPT !.row = Some(4)])

Item_row_set(self, value) ==
    IF value = None
    THEN Done([self EXCEPT !.row = None])
    ELSE IF 5 > value[1] /\ value[1] >= 0
         THEN Done([self EXCEPT !.row = value])
         ELSE Fails(self)

\* Item.persistent, UrlButton.persistent
persistent(self) == IF self.cls = "UrlButton" THEN TRUE ELSE self.provided

\* Button.dispatchable, UrlButton.dispatchable
dispatchable(self) == IF self.cls = "UrlButton" THEN FALSE ELSE TRUE

\* The custom_id of a component: an attribute of Button, the property
\* UrlButton.custom_id of the component class.
Component_custom_id(c) == IF c.cls = "UrlButton" THEN None ELSE Some(c.custom_id)

\* Button.style, UrlButton.style
Item_style(self) ==
    IF self.cls = "UrlButton"
    THEN try_enum("ButtonStyle", ButtonStyle_url)
    ELSE self.underlying.style

\* The reads the item passes on to its component: ButtonBase.disabled,
\* ButtonBase.label, ButtonBase.emoji, Button.custom_id, UrlButton.url.
Item_disabled(self) == self.underlying.disabled
Item_label(self) == self.underlying.label
Item_emoji(self) == self.underlying.emoji
Item_custom_id(self) == self.underlying.custom_id
Item_url(self) == self.underlying.url

\* The emoji argument as a PartialEmoji: a PartialEmoji is an _EmojiTag and
\* _to_partial gives it back.
to_partial(emoji) == emoji

Button_init_NoGenerate(style, label, disabled, custom_id, emoji, row, oid) ==
    LET self0 == [Item_init("Button") EXCEPT !.provided = custom_id # None]
        cid == IF custom_id = None THEN "" ELSE custom_id[1]
        comp == Instance([cls |-> "Button", style |-> style, custom_id |-> cid,
                          disabled |-> disabled, label |-> label,
                          emoji |-> to_partial(emoji)], oid)
    IN  IF style.value = ButtonStyle_url
        THEN Fails(NoItem)
        ELSE LET r == Item_row_set([self0 EXCEPT !.underlying = comp], row)
             IN  IF r.raised THEN Fails(NoItem) ELSE r

\* ui.Button.__init__; oid is the new ButtonComponent instance.
Button_init(style, label, disabled, custom_id, emoji, row, oid) ==
    LET self0 == [Item_init("Button") EXCEPT !.provided = custom_id # None]
        cid == IF custom_id = None THEN GeneratedId ELSE custom_id[1]
        comp == Instance([cls |-> "Button", style |-> style, custom_id |-> cid,
                          disabled |-> disabled, label |-> label,
                          emoji |-> to_partial(emoji)], oid)
    IN  IF style.value = ButtonStyle_url
        THEN Fails(NoItem)
        ELSE LET r == Item_row_set([self0 EXCEPT !.underlying = comp], row)
             IN  IF r.raised THEN Fails(NoItem) ELSE r

\* ui.UrlButton.__init__; oid is the new UrlButtonComponent instance.
UrlButton_init(url, label, disabled, emoji, row, oid) ==
    LET comp == Instance([cls |-> "UrlButton", url |-> url, disabled |-> disabled,
                          label |-> label, emoji |-> to_partial(emoji)], oid)
        r == Item_row_set([Item_init("UrlButton") EXCEPT !.underlying = comp], row)
    IN  IF r.raised THEN Fails(NoItem) ELSE r

\* ButtonBase.disabled setter
disabled_set(self, value) == Done([self EXCEPT !.underlying.disabled = value])

\* ButtonBase.label setter
label_set_IfTruthy(self, value) ==
    IF TruthyStr(value) THEN Done([self EXCEPT !.underlying.label = value]) ELSE Done(self)

label_set(self, value) == Done([self EXCEPT !.underlying.label = value])

\* ButtonBase.emoji setter
emoji_set(self, value) == Done([self EXCEPT !.underlying.emoji = to_partial(value)])

\* Button.style setter; UrlButton.style is a property without a setter.
style_set(self, value) ==
    IF self.cls = "UrlButton"
    THEN Fails(self)
    ELSE Done([self EXCEPT !.underlying.style = value])

\* Button.custom_id setter, value being a str or None; ui.UrlButton has no
\* custom_id property, the assignment leaves its component alone.
custom_id_set(self, value) ==
    IF self.cls = "UrlButton"
    THEN Done(self)
    ELSE IF value = None
         THEN Fails(self)
         ELSE Done([self EXCEPT !.underlying.custom_id = value[1]])

\* UrlButton.url setter, value being a str or None; ui.Button has no url
\* property, the assignment leaves its component alone.
url_set(self, value) ==
    IF self.cls = "Button"
    THEN Done(self)
    ELSE IF value = None
         THEN Fails(self)
         ELSE Done([self EXCEPT !.underlying.url = value[1]])

refresh_component_CopyFields(self, button) ==
    Done([self EXCEPT !.underlying = Instance(button, self.underlying.oid)])

\* ButtonBase.refresh_component
refresh_component(self, button) == Done([self EXCEPT !.underlying = button])

Button_from_component_NoId(button, oid) ==
    Button_init(button.style, button.label, button.disabled, None, button.emoji, None, oid)

\* Button.from_component; oid is the new ButtonComponent instance.
Button_from_component(button, oid) ==
    Button_init(button.style, button.label, button.disabled, Some(button.custom_id),
                button.emoji, None, oid)

\* UrlButton.from_component; oid is the new UrlButtonComponent instance.
UrlButton_from_component(button, oid) ==
    UrlButton_init(button.url, button.label, button.disabled, button.emoji, None, oid)

\* The button payloads a message brings, and the components decoded from them.
ButtonWires ==
    {Restrict([type |-> 2, style |-> st, custom_id |-> "id", disabled |-> TRUE,
               label |-> "ok", emoji |-> PartialEmoji_to_dict(UnicodeEmoji)],
              {"type", "style", "custom_id"} \cup K) :
        st \in {1, 3}, K \in SUBSET {"disabled", "label", "emoji"}}

UrlButtonWires ==
    {Restrict([type |-> 2, style |-> 5, url |-> "https://u", disabled |-> TRUE,
               label |-> "ok", emoji |-> PartialEmoji_to_dict(UnicodeEmoji)],
              {"type", "style", "url"} \cup K) :
        K \in SUBSET {"disabled", "label", "emoji"}}

DecodedButtons == {_component_factory(w) : w \in ButtonWires}
DecodedUrlButtons == {_component_factory(w) : w \in UrlButtonWires}

\* WrappedComponent.to_dict: self._underlying.to_dict()
Item_to_dict(self) == to_dict(self.underlying)

\* The values last written to the fields of a component: none yet, and
\* those a component c was constructed or decoded with.
NoLast ==
    [disabled |-> FALSE, label |-> None, emoji |-> None,
     style |-> None, custom_id |-> None, url |-> None]

LastOf(c) ==
    [disabled |-> c.disabled, label |-> c.label, emoji |-> c.emoji,
     style |-> IF c.cls = "Button" THEN Some(c.style) ELSE None,
     custom_id |-> IF c.cls = "Button" THEN Some(c.custom_id) ELSE None,
     url |-> IF c.cls = "UrlButton" THEN Some(c.url) ELSE None]

\* The life of one item: it is constructed, by a constructor or by
\* from_component, and then its setters and refresh_component are called.

InitItem ==
    /\ it = NoItem
    /\ it_op = "none"
    /\ it_raised = FALSE
    /\ it_arg = None
    /\ it_c = NoComponent
    /\ it_oids = 0
    /\ it_explicit = FALSE
    /\ it_last = NoLast

Live == it # NoItem

\* The call op gave r; arg and c are its row and component arguments.
Step(op, r, arg, c) ==
    /\ it' = r.self
    /\ it_op' = op
    /\ it_raised' = r.raised
    /\ it_arg' = arg
    /\ it_c' = c
    /\ UNCHANGED notItemVars

\* Button(style=, label=, disabled=, custom_id=, emoji=, row=)
NewButton ==
    /\ it_op = "none"
    /\ \E style \in ButtonStyles, label \in OptStrs, disabled \in BOOLEAN,
          custom_id \in {None, Some("id")}, emoji \in {None, Some(UnicodeEmoji)},
          row \in RowHints :
           /\ Step("Button", Button_init(style, label, disabled, custom_id, emoji, row, 1),
                   row, NoComponent)
           /\ it_explicit' = (custom_id # None)
           /\ it_last' = IF it_raised' THEN NoLast
                         ELSE [disabled |-> disabled, label |-> label, emoji |-> emoji,
                               style |-> Some(style), url |-> None,
                               custom_id |-> IF custom_id = None THEN Some(GeneratedId)
                                             ELSE custom_id]
    /\ it_oids' = 1

\* UrlButton(url=, label=, disabled=, emoji=, row=)
NewUrlButton ==
    /\ it_op = "none"
    /\ \E label \in OptStrs, disabled \in BOOLEAN, emoji \in {None, Some(UnicodeEmoji)},
          row \in RowHints :
           /\ Step("UrlButton", UrlButton_init("https://u", label, disabled, emoji, row, 1),
                   row, NoComponent)
           /\ it_last' = IF it_raised' THEN NoLast
                         ELSE [disabled |-> disabled, label |-> label, emoji |-> emoji,
                               style |-> None, custom_id |-> None, url |-> Some("https://u")]
    /\ it_oids' = 1
    /\ it_explicit' = FALSE

\* Button.from_component(c), UrlButton.from_component(c) on a decoded component c.
FromComponent ==
    /\ it_op = "none"
    /\ \/ \E c \in DecodedButtons :
              Step("Button.from_component", Button_from_component(Instance(c, 1), 2),
                   None, Instance(c, 1))
       \/ \E c \in DecodedUrlButtons :
              Step("UrlButton.from_component", UrlButton_from_component(Instance(c, 1), 2),
                   None, Instance(c, 1))
    /\ it_oids' = 2
    /\ it_explicit' = (it'.cls = "Button")
    /\ it_last' = LastOf(it_c')

\* item.disabled = value
SetDisabled ==
    /\ Live
    /\ \E value \in BOOLEAN :
           /\ Step("disabled", disabled_set(it, value), None, NoComponent)
           /\ it_last' = [it_last EXCEPT !.disabled = value]
    /\ UNCHANGED <<it_oids, it_explicit>>

\* item.label = value
SetLabel ==
    /\ Live
    /\ \E value \in OptStrs :
           /\ Step("label", label_set(it, value), None, NoComponent)
           /\ it_last' = [it_last EXCEPT !.label = value]
    /\ UNCHANGED <<it_oids, it_explicit>>

\* item.emoji = value
SetEmoji ==
    /\ Live
    /\ \E value \in {None, Some(UnicodeEmoji)} :
           /\ Step("emoji", emoji_set(it, value), None, NoComponent)
           /\ it_last' = [it_last EXCEPT !.emoji = value]
    /\ UNCHANGED <<it_oids, it_explicit>>

\* item.style = value
SetStyle ==
    /\ Live
    /\ \E value \in ButtonStyles :
           /\ Step("style", style_set(it, value), None, NoComponent)
           /\ it_last' = IF it_raised' THEN it_last ELSE [it_last EXCEPT !.style = Some(value)]
    /\ UNCHANGED <<it_oids, it_explicit>>

\* item.custom_id = value
SetCustomId ==
    /\ Live
    /\ \E value \in {None, Some("id")} :
           /\ Step("custom_id", custom_id_set(it, value), None, NoComponent)
           /\ it_explicit' = IF it.cls = "Button" /\ value # None THEN TRUE ELSE it_explicit
           /\ it_last' = IF it.cls = "Button" /\ ~it_raised'
                         THEN [it_last EXCEPT !.custom_id = value] ELSE it_last
    /\ UNCHANGED it_oids

\* item.url = value
SetUrl ==
    /\ Live
    /\ \E value \in {None, Some("https://u"), Some("https://v")} :
           /\ Step("url", url_set(it, value), None, NoComponent)
           /\ it_last' = IF it.cls = "UrlButton" /\ ~it_raised'
                         THEN [it_last EXCEPT !.url = value] ELSE it_last
    /\ UNCHANGED <<it_oids, it_explicit>>

\* item.row = value
SetRow ==
    /\ Live
    /\ \E value \in RowHints : Step("row", Item_row_set(it, value), value, NoComponent)
    /\ UNCHANGED <<it_oids, it_explicit, it_last>>

\* item.refresh_component(c), c a newly decoded component of the item's kind.
Refresh ==
    /\ Live
    /\ it_oids < MaxInstances
    /\ \E c \in (IF it.cls = "Button" THEN DecodedButtons ELSE DecodedUrlButtons) :
           Step("refresh_component", refresh_component(it, Instance(c, it_oids + 1)),
                None, Instance(c, it_oids + 1))
    /\ it_oids' = it_oids + 1
    /\ it_last' = LastOf(it_c')
    /\ UNCHANGED it_explicit

NextButton ==
    \/ NewButton
    \/ NewUrlButton
    \/ FromComponent
    \/ SetDisabled
    \/ SetLabel
    \/ SetEmoji
    \/ SetStyle
    \/ SetCustomId
    \/ SetUrl
    \/ SetRow
    \/ Refresh

-----------------------------------------------------------------------------
\* Properties of the button items.

ValidRow(value) == value = None \/ value[1] \in 0..4

\* The reads of the item self give the fields of the component c.
ReadsAre(self, c) ==
    /\ Item_disabled(self) = c.disabled
    /\ Item_label(self) = c.label
    /\ Item_emoji(self) = c.emoji
    /\ self.cls = "Button" =>
           /\ Item_style(self) = c.style
           /\ Item_custom_id(self) = c.custom_id
    /\ self.cls = "UrlButton" =>
           /\ Item_url(self) = c.url
           /\ Item_style(self).value = 5

\* C13: item.row = value stores None and every integer in 0..4; any other
\* integer raises ValueError and the stored row hint stays what it was. The
\* Button and UrlButton constructors do the same with their row argument: a
\* valid row is stored, any other raises and no item is constructed.
C13_RowHintValidated ==
    [][/\ it_op' = "row" =>
              /\ it_raised' <=> ~ValidRow(it_arg')
              /\ ~it_raised' => it' = [it EXCEPT !.row = it_arg']
              /\ it_raised' => it' = it
       /\ it_op' \in {"Button", "UrlButton"} =>
              /\ ~ValidRow(it_arg') => it_raised' /\ it' = NoItem
              /\ ~it_raised' => it'.row = it_arg'
              /\ it_op' = "UrlButton" /\ ValidRow(it_arg') => ~it_raised'
      ]_vars

C13_Witness ==
    /\ it_op = "row"
    /\ it_raised
    /\ it_arg = Some(5)
    /\ it.row = Some(2)

\* C14: once a Button or UrlButton item is constructed, no setter (disabled,
\* label, emoji, style, custom_id, url, row) changes which component instance
\* it wraps; refresh_component(c) makes c the wrapped instance, every read
\* the item passes on gives c's field, and row and persistent stay as they were.
C14_OnlyRefreshReplaces ==
    [][/\ (it # NoItem /\ it_op' # "refresh_component") =>
              it'.underlying.oid = it.underlying.oid
       /\ it_op' = "refresh_component" =>
              /\ ~it_raised'
              /\ it'.underlying = it_c'
              /\ ReadsAre(it', it_c')
              /\ it'.row = it.row
              /\ persistent(it') = persistent(it)
      ]_vars

C14_Witness ==
    /\ it_op = "refresh_component"
    /\ it.cls = "Button"
    /\ it.underlying = it_c
    /\ it.underlying.oid = 2
    /\ it.row = Some(3)
    /\ ~persistent(it)
    /\ it.underlying.custom_id = "id"

\* C15: from_component(c) on a decoded Button or UrlButton component c gives
\* an item with row None and persistent true whose style, label, disabled,
\* custom_id or url, and emoji are those of c.
C15_FromComponent ==
    it_op \in {"Button.from_component", "UrlButton.from_component"} =>
        /\ ~it_raised
        /\ it.cls = it_c.cls
        /\ it.row = None
        /\ persistent(it)
        /\ ReadsAre(it, it_c)

C15_Witness ==
    /\ it_op = "Button.from_component"
    /\ it_c.label = None
    /\ it_c.emoji # None
    /\ it.underlying.emoji = it_c.emoji
    /\ it.underlying.label = None
    /\ persistent(it)

\* C16: a ui.Button constructed without a custom_id has a generated, non-empty
\* custom_id, and a ui.Button is dispatchable in every state; a ui.UrlButton
\* is never dispatchable and the custom_id of its component is None in every
\* state, whatever setters were called.
C16_Dispatchable ==
    /\ (it_op = "Button" /\ ~it_raised /\ ~it_explicit) =>
           /\ it.underlying.custom_id = GeneratedId
           /\ it.underlying.custom_id # ""
    /\ it.cls = "Button" => dispatchable(it)
    /\ it.cls = "UrlButton" =>
           /\ ~dispatchable(it)
           /\ Component_custom_id(it.underlying) = None

C16_Witness ==
    /\ it.cls = "UrlButton"
    /\ it_op = "custom_id"
    /\ ~it_raised
    /\ ~dispatchable(it)
    /\ Component_custom_id(it.underlying) = None

\* C17: in every state of a ui.Button, persistent is true exactly when the
\* custom_id the button now has was supplied by the caller, not generated:
\* also after the caller assigned one through the custom_id setter.
C17_PersistentIffSupplied ==
    it.cls = "Button" => (persistent(it) <=> it_explicit)

\* The component of class cls that holds the values last written.
ComponentOf(cls, last) ==
    IF cls = "Button"
    THEN [cls |-> "Button", style |-> last.style[1], custom_id |-> last.custom_id[1],
          disabled |-> last.disabled, label |-> last.label, emoji |-> last.emoji]
    ELSE [cls |-> "UrlButton", url |-> last.url[1],
          disabled |-> last.disabled, label |-> last.label, emoji |-> last.emoji]

\* C24: after any sequence of setter calls on a Button or UrlButton item,
\* item.to_dict() is the to_dict() of the wrapped component and encodes, for
\* every field, the value last written to it (by a setter, or by the
\* constructor or refresh_component when no setter wrote it since): nothing
\* is cached.
C24_ToDictWriteThrough ==
    Live =>
        LET d == Item_to_dict(it)
        IN  /\ d = to_dict(it.underlying)
            /\ d = to_dict(ComponentOf(it.cls, it_last))
            /\ d.disabled = it_last.disabled
            /\ get_opt(d, "label") = (IF TruthyStr(it_last.label) THEN it_last.label ELSE None)
            /\ it.cls = "Button" =>
                   d.custom_id = it_last.custom_id[1] /\ d.style = it_last.style[1].value
            /\ it.cls = "UrlButton" => d.url = it_last.url[1]

C24_Witness ==
    /\ Live
    /\ it.cls = "Button"
    /\ it_op = "label"
    /\ ~it_raised
    /\ it.underlying.oid = 3
    /\ it_last.label = Some("")
    /\ it_last.disabled
    /\ it_last.emoji = Some(UnicodeEmoji)
    /\ DOMAIN Item_to_dict(it) = {"type", "style", "custom_id", "disabled", "emoji"}

\* C29: in every state a ui.Button can reach (construction, from_component,
\* any setter, refresh_component) its style is not ButtonStyle.url and its
\* component is a callback Button component with a string custom_id; giving
\* it the url style is rejected with ValueError.
C29_ButtonNeverUrl ==
    (Live /\ it.cls = "Button") =>
        /\ Item_style(it).value # ButtonStyle_url
        /\ it.underlying.cls = "Button"
        /\ "custom_id" \in DOMAIN it.underlying
        /\ Component_custom_id(it.underlying) # None

-----------------------------------------------------------------------------
\* The operations of a ui.ActionRow on its _children list
\* (disnake/ui/action_row.py).

\* Most items the add_ helpers construct in one run.
MaxAdded == 1

\* The item objects the caller holds, and the k-th item a helper constructs.
RowItems == {1, 2}
AddedItem(k) == 10 + k
AddedTextInput(k) == 20 + k

\* The items that are text inputs, the components of a modal: item 2 of the
\* caller, and what add_text_input constructs. The other items are buttons
\* and select menus, the components of a message.
FormItems == {2} \cup {AddedTextInput(k) : k \in 1..MaxAdded}

ItemContext(item) == IF item \in FormItems THEN "form" ELSE "message"

\* The index arguments tried, and the slices start:stop.
RowIndices == {-1, 0, 2, MaxWidth}
RowSlices == {<<0, 2>>, <<1, MaxWidth>>, <<2, 2>>}

\* The arguments of ActionRow(*components).
RowArguments == UNION {[1..k -> RowItems] : k \in {0, 2, MaxWidth, MaxWidth + 1}}

\* Whether l[index] exists, and its position counted from 1.
InRange(l, index) == -Len(l) <= index /\ index < Len(l)
Position(l, index) == IF index < 0 THEN index + Len(l) + 1 ELSE index + 1

\* l without its position p (counted from 1).
RemoveAt(l, p) == SubSeq(l, 1, p - 1) \o SubSeq(l, p + 1, Len(l))

\* The first position of x in l, 0 when x is not in l.
IndexOf(l, x) ==
    IF \E p \in DOMAIN l : l[p] = x
    THEN CHOOSE p \in DOMAIN l : l[p] = x /\ \A q \in 1..(p - 1) : l[q] # x
    ELSE 0

\* list.remove(x): removes the first element equal to x, ValueError when none is.
list_remove(l, x) ==
    IF IndexOf(l, x) = 0
    THEN [raised |-> TRUE, children |-> l]
    ELSE [raised |-> FALSE, children |-> RemoveAt(l, IndexOf(l, x))]

\* del l[index]: IndexError when there is no such element.
list_delitem(l, index) ==
    IF InRange(l, index)
    THEN [raised |-> FALSE, children |-> RemoveAt(l, Position(l, index))]
    ELSE [raised |-> TRUE, children |-> l]

\* del l[start:stop] for 0 <= start, 0 <= stop: both are cut to len(l).
list_delslice(l, start, stop) ==
    LET a == IF start > Len(l) THEN Len(l) ELSE start
        b == IF stop > Len(l) THEN Len(l) ELSE stop
    IN  IF a < b
        THEN [raised |-> FALSE, children |-> SubSeq(l, 1, a) \o SubSeq(l, b + 1, Len(l))]
        ELSE [raised |-> FALSE, children |-> l]

\* ActionRow.clear_items
clear_items(children) == [raised |-> FALSE, children |-> <<>>]

\* ActionRow.remove_item
remove_item(children, item) == list_remove(children, item)

\* ActionRow.__getitem__ with an int
ActionRow_getitem(children, index) ==
    IF InRange(children, index)
    THEN [raised |-> FALSE, value |-> children[Position(children, index)]]
    ELSE [raised |-> TRUE, value |-> 0]

\* ActionRow.pop: self.remove_item(component := self[index]); return component
pop(children, index) ==
    LET got == ActionRow_getitem(children, index)
    IN  IF got.raised
        THEN [raised |-> TRUE, children |-> children, ret |-> 0]
        ELSE [raised |-> remove_item(children, got.value).raised,
              children |-> remove_item(children, got.value).children,
              ret |-> got.value]

\* ActionRow.__delitem__ with an int, and with a slice
ActionRow_delitem(children, index) == list_delitem(children, index)
ActionRow_delslice(children, start, stop) == list_delslice(children, start, stop)

\* ActionRow.add_button, ActionRow.add_url_button: insert_item(len(self) if
\* index is None else index, Button(...)); item is the new button.
add_button(children, index, item) ==
    insert_item(children, IF index = None THEN Len(children) ELSE index[1], item)

\* ActionRow.add_string_select, add_user_select, add_role_select,
\* add_mentionable_select, add_channel_select, add_text_input:
\* append_item(...); item is the new select or text input.
add_select_Unchecked(children, item) ==
    [raised |-> FALSE, children |-> Append(children, item)]

add_select(children, item) == append_item(children, item)

InitRow ==
    /\ rw = <<>>
    /\ rw_before = <<>>
    /\ rw_op = "none"
    /\ rw_raised = FALSE
    /\ rw_index = 0
    /\ rw_stop = 0
    /\ rw_item = 0
    /\ rw_made = 0

\* A row exists: ActionRow(...) was called and returned.
RowLive == rw_op # "none" /\ ~(rw_op = "init" /\ rw_raised)

\* The call op gave r, with the arguments index, stop and item.
RowStep(op, r, index, stop, item) ==
    /\ rw' = r.children
    /\ rw_before' = rw
    /\ rw_op' = op
    /\ rw_raised' = r.raised
    /\ rw_index' = index
    /\ rw_stop' = stop
    /\ rw_item' = item
    /\ UNCHANGED notRowVars

\* ActionRow(*components)
RowInit ==
    /\ rw_op = "none"
    /\ \E comps \in RowArguments :
           LET r == ActionRow_init(comps)
           IN  RowStep("init", IF r.raised THEN [r EXCEPT !.children = <<>>] ELSE r,
                       0, 0, Len(comps))
    /\ UNCHANGED rw_made

\* row.append_item(item)
RowAppend ==
    /\ RowLive
    /\ \E item \in RowItems : RowStep("append_item", append_item(rw, item), 0, 0, item)
    /\ UNCHANGED rw_made

\* row.insert_item(index, item)
RowInsert ==
    /\ RowLive
    /\ \E index \in RowIndices, item \in RowItems :
           RowStep("insert_item", insert_item(rw, index, item), index, 0, item)
    /\ UNCHANGED rw_made

\* row.add_button(index, ...), row.add_url_button(index, ...)
RowAddButton ==
    /\ RowLive
    /\ rw_made < MaxAdded
    /\ \E index \in {None} \cup {Some(i) : i \in RowIndices} :
           RowStep("add_button", add_button(rw, index, AddedItem(rw_made + 1)),
                   IF index = None THEN Len(rw) ELSE index[1], 0, AddedItem(rw_made + 1))
    /\ rw_made' = rw_made + 1

\* row.add_string_select(...) and the other add_ helpers that append
RowAddSelect ==
    /\ RowLive
    /\ rw_made < MaxAdded
    /\ RowStep("add_select", add_select(rw, AddedItem(rw_made + 1)),
               0, 0, AddedItem(rw_made + 1))
    /\ rw_made' = rw_made + 1

\* row.add_text_input(...)
RowAddTextInput ==
    /\ RowLive
    /\ rw_made < MaxAdded
    /\ RowStep("add_text_input", add_select(rw, AddedTextInput(rw_made + 1)),
               0, 0, AddedTextInput(rw_made + 1))
    /\ rw_made' = rw_made + 1

\* row.remove_item(item)
RowRemove ==
    /\ RowLive
    /\ \E item \in RowItems : RowStep("remove_item", remove_item(rw, item), 0, 0, item)
    /\ UNCHANGED rw_made

\* row.pop(index)
RowPop ==
    /\ RowLive
    /\ \E index \in RowIndices :
           RowStep("pop", pop(rw, index), index, 0, pop(rw, index).ret)
    /\ UNCHANGED rw_made

\* row.clear_items()
RowClear ==
    /\ RowLive
    /\ RowStep("clear_items", clear_items(rw), 0, 0, 0)
    /\ UNCHANGED rw_made

\* del row[index]
RowDelIndex ==
    /\ RowLive
    /\ \E index \in RowIndices :
           RowStep("delitem", ActionRow_delitem(rw, index), index, 0, 0)
    /\ UNCHANGED rw_made

\* del row[start:stop]
RowDelSlice ==
    /\ RowLive
    /\ \E sl \in RowSlices :
           RowStep("delslice", ActionRow_delslice(rw, sl[1], sl[2]), sl[1], sl[2], 0)
    /\ UNCHANGED rw_made

NextRow ==
    \/ RowInit
    \/ RowAppend
    \/ RowInsert
    \/ RowAddButton
    \/ RowAddSelect
    \/ RowAddTextInput
    \/ RowRemove
    \/ RowPop
    \/ RowClear
    \/ RowDelIndex
    \/ RowDelSlice

\* Properties of the row operations.

\* C18: after any sequence of operations on a ui.ActionRow (construction,
\* append_item, insert_item, the add_ helpers, remove_item, pop, clear_items,
\* del by index or slice) the width of the row is at most 5; an append or
\* insert, also one by an add_ helper, that would take the width above 5
\* raises ValueError, and the construction from more than 5 items raises.
C18_RowWidthBounded ==
    /\ TotalWidth(rw) <= 5
    /\ rw_op \in {"append_item", "insert_item", "add_button", "add_select", "add_text_input"} =>
           /\ rw_raised <=> TotalWidth(rw_before) + 1 > 5
           /\ rw_raised => rw = rw_before
           /\ ~rw_raised => TotalWidth(rw) = TotalWidth(rw_before) + 1
    /\ rw_op = "init" => (rw_raised <=> rw_item > 5)

C18_Witness ==
    /\ rw_op = "add_button"
    /\ rw_raised
    /\ TotalWidth(rw) = 5
    /\ rw = rw_before

\* C19: pop(i) with an index i that has a component returns that component
\* and leaves the row without position i, the other positions in their
\* order, also when the same item object is in the row more than once; with
\* an index that has no component it raises IndexError and leaves the row as
\* it was.
C19_PopAtIndex ==
    rw_op = "pop" =>
        IF InRange(rw_before, rw_index)
        THEN /\ ~rw_raised
             /\ rw_item = rw_before[Position(rw_before, rw_index)]
             /\ rw = RemoveAt(rw_before, Position(rw_before, rw_index))
        ELSE /\ rw_raised
             /\ rw = rw_before

\* All the children are components of a message, or all are components of a modal.
Homogeneous(children) ==
    \A i, j \in DOMAIN children : ItemContext(children[i]) = ItemContext(children[j])

\* C25: every ui.ActionRow reachable through the constructor, append_item,
\* insert_item and the add_ helpers holds components of one context only
\* (buttons and selects of a message, or text inputs of a modal); an
\* operation that would mix the two is rejected.
C25_RowHomogeneous ==
    /\ Homogeneous(rw)
    /\ (rw_op \in {"append_item", "insert_item", "add_button", "add_select", "add_text_input"}
            /\ rw_before # <<>>
            /\ ItemContext(rw_item) # ItemContext(rw_before[1]))
           => rw_raised /\ rw = rw_before

\* C27: when insert_item or append_item, or an add_ helper through them,
\* raises ValueError because the width would exceed 5, the children of the
\* row are exactly what they were before the call: nothing was inserted,
\* removed or reordered.
C27_FailedInsertLeavesRow ==
    (rw_op \in {"append_item", "insert_item", "add_button", "add_select", "add_text_input"}
        /\ rw_raised)
       => /\ rw = rw_before
          /\ TotalWidth(rw_before) + width(rw_item) > 5

C27_Witness ==
    /\ rw_op = "insert_item"
    /\ rw_raised
    /\ rw_index = 2
    /\ rw_before = <<1, 2, 2, 1, 1>>
    /\ rw = rw_before

-----------------------------------------------------------------------------
\* ActionRow.rows_from_message (disnake/ui/action_row.py).

\* Most rows of a message.
MaxMessageRows == 2

\* The components a message row is decoded from: a button, a URL button, the
\* five select menus, and a text input, which no message row should hold.
MsgButton == _component_factory([type |-> 2, style |-> 1, custom_id |-> "id", label |-> "ok"])
MsgUrlButton == _component_factory([type |-> 2, style |-> 5, url |-> "https://u", disabled |-> TRUE])
MsgSelects ==
    {_component_factory([type |-> 3, custom_id |-> "id", options |-> <<>>]),
     _component_factory([type |-> 5, custom_id |-> "id", placeholder |-> "ok"]),
     _component_factory([type |-> 6, custom_id |-> "id", min_values |-> 2]),
     _component_factory([type |-> 7, custom_id |-> "id", max_values |-> 25]),
     _component_factory([type |-> 8, custom_id |-> "id", channel_types |-> <<0, 2>>])}
MsgTextInput == _component_factory([type |-> 4, custom_id |-> "id", style |-> 1, label |-> "t"])

\* The rows of a message: up to two buttons, or one select menu, or a row
\* that holds a text input.
MessageRows ==
    {[cls |-> "ActionRow", children |-> cs] :
        cs \in UNION {[1..k -> {MsgButton, MsgUrlButton}] : k \in 0..2}
                   \cup {<<m>> : m \in MsgSelects}
                   \cup {<<MsgTextInput>>, <<MsgButton, MsgTextInput>>,
                         <<MsgTextInput, MsgButton>>}}

\* The ui class rows_from_message makes of a component; "" when it knows none.
UiClassOf(component) ==
    CASE component.cls = "Button" -> "Button"
      [] component.cls = "UrlButton" -> "UrlButton"
      [] component.cls = "StringSelectMenu" -> "StringSelect"
      [] component.cls = "UserSelectMenu" -> "UserSelect"
      [] component.cls = "RoleSelectMenu" -> "RoleSelect"
      [] component.cls = "MentionableSelectMenu" -> "MentionableSelect"
      [] component.cls = "ChannelSelectMenu" -> "ChannelSelect"
      [] OTHER -> ""

\* from_component of the select items: an item around a new component with
\* the fields of the source, no row hint, its custom_id counting as provided.
Select_from_component(component, oid) ==
    Done([cls |-> UiClassOf(component), underlying |-> Instance(component, oid),
          row |-> None, provided |-> TRUE])

\* The body of the inner loop of rows_from_message for one component:
\* what is appended to the row, or that the component is skipped, or the raise.
item_of_component(component, strict, oid) ==
    IF component.cls = "Button"
    THEN [Button_from_component(component, oid) EXCEPT !.raised = IF @ THEN "raised" ELSE "item"]
    ELSE IF component.cls = "UrlButton"
    THEN [UrlButton_from_component(component, oid) EXCEPT !.raised = IF @ THEN "raised" ELSE "item"]
    ELSE IF UiClassOf(component) # ""
    THEN [Select_from_component(component, oid) EXCEPT !.raised = "item"]
    ELSE IF assert_never(component).raised
    THEN [raised |-> "raised", self |-> NoItem]
    ELSE IF strict
    THEN [raised |-> "raised", self |-> NoItem]
    ELSE [raised |-> "skipped", self |-> NoItem]

\* The inner loop: for component in row.children, from the i-th child on;
\* r is the number of the row.
RECURSIVE row_from_children_Reversed(_, _, _, _, _)
row_from_children_Reversed(current_row, children, i, strict, r) ==
    IF i > Len(children) THEN [raised |-> FALSE, children |-> current_row]
    ELSE LET made == item_of_component(children[i], strict, 10 * r + i)
         IN  IF made.raised = "raised" THEN [raised |-> TRUE, children |-> current_row]
             ELSE IF made.raised = "skipped"
             THEN row_from_children_Reversed(current_row, children, i + 1, strict, r)
             ELSE LET a == insert_item(current_row, 0, made.self)
                  IN  IF a.raised THEN a
                      ELSE row_from_children_Reversed(a.children, children, i + 1, strict, r)

RECURSIVE row_from_children(_, _, _, _, _)
row_from_children(current_row, children, i, strict, r) ==
    IF i > Len(children) THEN [raised |-> FALSE, children |-> current_row]
    ELSE LET made == item_of_component(children[i], strict, 10 * r + i)
         IN  IF made.raised = "raised" THEN [raised |-> TRUE, children |-> current_row]
             ELSE IF made.raised = "skipped"
             THEN row_from_children(current_row, children, i + 1, strict, r)
             ELSE LET a == append_item(current_row, made.self)
                  IN  IF a.raised THEN a
                      ELSE row_from_children(a.children, children, i + 1, strict, r)

\* ActionRow.rows_from_message: for row in message.components, from the
\* r-th row on; rows is the list built so far.
RECURSIVE rows_from_message(_, _, _, _)
rows_from_message(rows, message_components, r, strict) ==
    IF r > Len(message_components) THEN [raised |-> FALSE, rows |-> rows]
    ELSE LET current_row == row_from_children(ActionRow_init(<<>>).children,
                                              message_components[r].children, 1, strict, r)
         IN  IF current_row.raised THEN [raised |-> TRUE, rows |-> <<>>]
             ELSE rows_from_message(Append(rows, current_row.children), message_components,
                                    r + 1, strict)

InitMessage ==
    /\ msg_pc = "none"
    /\ msg = <<>>
    /\ msg_strict = TRUE
    /\ msg_result = [raised |-> FALSE, rows |-> <<>>]

\* A message with its rows of components is at hand.
MessageReceived ==
    /\ msg_pc = "none"
    /\ \E k \in 0..MaxMessageRows : \E m \in [1..k -> MessageRows] : msg' = m
    /\ msg_pc' = "received"
    /\ UNCHANGED <<msg_strict, msg_result>>
    /\ UNCHANGED notMsgVars

\* ActionRow.rows_from_message(message, strict=strict)
RowsFromMessage ==
    /\ msg_pc = "received"
    /\ \E strict \in BOOLEAN :
           /\ msg_strict' = strict
           /\ msg_result' = rows_from_message(<<>>, msg, 1, strict)
    /\ msg_pc' = "done"
    /\ UNCHANGED msg
    /\ UNCHANGED notMsgVars

NextMessage ==
    \/ MessageReceived
    \/ RowsFromMessage

\* Properties of rows_from_message.

\* The component is one rows_from_message knows.
KnownComponent(component) == UiClassOf(component) # ""

\* The item is of the kind of the component and wraps a component with its fields.
ItemMatches(item, component) ==
    /\ item.cls = UiClassOf(component)
    /\ Restrict(item.underlying, DOMAIN component) = component
    /\ item.cls \in {"Button", "UrlButton"} => ReadsAre(item, component)

\* C20: rows_from_message returns one ui row per row of the message, in the
\* message's row order; each returned row holds one item per known component
\* of its source row, in the source order and of the matching kind (Button,
\* UrlButton, the five selects), with the fields of its source component.
C20_RowsFromMessage ==
    (msg_pc = "done" /\ ~msg_result.raised) =>
        /\ Len(msg_result.rows) = Len(msg)
        /\ \A r \in DOMAIN msg :
               LET known == SelectSeq(msg[r].children, KnownComponent)
               IN  /\ Len(msg_result.rows[r]) = Len(known)
                   /\ \A i \in DOMAIN known : ItemMatches(msg_result.rows[r][i], known[i])

C20_Witness ==
    /\ msg_pc = "done"
    /\ ~msg_result.raised
    /\ Len(msg) = 2
    /\ msg[1].children = <<MsgUrlButton, MsgButton>>
    /\ Len(msg[2].children) = 1
    /\ msg[2].children[1].cls = "ChannelSelectMenu"
    /\ msg_result.rows[1][1].cls = "UrlButton"
    /\ msg_result.rows[1][2].cls = "Button"
    /\ msg_result.rows[2][1].cls = "ChannelSelect"

\* The message holds a component that is of none of the seven known kinds.
HasUnknownComponent ==
    \E r \in DOMAIN msg : \E i \in DOMAIN msg[r].children :
        ~KnownComponent(msg[r].children[i])

\* C21: on a message holding a component of none of the seven known kinds,
\* rows_from_message raises with strict=True, and with strict=False it does
\* not raise and returns the rows built from the known components.
C21_StrictFlag ==
    (msg_pc = "done" /\ HasUnknownComponent) =>
        IF msg_strict
        THEN msg_result.raised
        ELSE /\ ~msg_result.raised
             /\ Len(msg_result.rows) = Len(msg)
             /\ \A r \in DOMAIN msg :
                    LET known == SelectSeq(msg[r].children, KnownComponent)
                    IN  /\ Len(msg_result.rows[r]) = Len(known)
                        /\ \A i \in DOMAIN known :
                               ItemMatches(msg_result.rows[r][i], known[i])

-----------------------------------------------------------------------------
\* components_to_rows and the row hints of the items: the call on an input
\* whose items have no row hint, and the call on the same input with row
\* hints on its items, side by side.

\* Most items of the input, and most explicit groups in it.
MaxHinted == 6
MaxHintGroups == 1

\* The row hints an item can hold (Item.row): None, or an integer in 0..4.
HintRows == {None, Some(0), Some(4)}

\* The item object number id with the row hint row.
HintedItem(id, row) == [id |-> id, row |-> row]

\* The k-th to (k+n-1)-th item objects, with the row hints of the sequence rows.
HintedItems(first, rows) == [i \in DOMAIN rows |-> HintedItem(first + i - 1, rows[i])]

NoHints(n) == [i \in 1..n |-> None]

NoLocals == [heap |-> <<>>, action_rows |-> <<>>, auto_row |-> 0]

\* Loop body, isinstance(component, Sequence): action_rows.append(ActionRow(*component)).
PackSeq(st, items) ==
    LET s1 == SealAuto(st)
        made == ActionRow_init(items)
    IN  IF made.raised
        THEN [raised |-> TRUE, st |-> s1]
        ELSE [raised |-> FALSE,
              st |-> [s1 EXCEPT !.heap = Append(s1.heap, made.children),
                                !.action_rows = Append(s1.action_rows, Len(s1.heap) + 1)]]

\* After the loop: if auto_row.width > 0: action_rows.append(auto_row).
PackReturn(st) ==
    IF ActionRow_width(st.heap[st.auto_row]) > 0
    THEN [st EXCEPT !.action_rows = Append(@, st.auto_row)]
    ELSE st

InitHints ==
    /\ hp_pc = "idle"
    /\ hp_pcb = "idle"
    /\ hp_a = NoLocals
    /\ hp_b = NoLocals
    /\ hp_items = 0
    /\ hp_groups = 0

\* Both calls: action_rows = [] and auto_row = ActionRow().
HintCall ==
    /\ hp_pc = "idle"
    /\ hp_pc' = "loop"
    /\ hp_pcb' = "loop"
    /\ hp_a' = [heap |-> <<<<>>>>, action_rows |-> <<>>, auto_row |-> 1]
    /\ hp_b' = [heap |-> <<<<>>>>, action_rows |-> <<>>, auto_row |-> 1]
    /\ UNCHANGED <<hp_items, hp_groups>>
    /\ UNCHANGED notHintVars

HintCanRead(n) ==
    /\ hp_pc = "loop"
    /\ hp_pcb = "loop"
    /\ hp_items + n <= MaxHinted

\* The next entry is an item: without a row hint in the first call, with the
\* row hint row in the second.
HintItem(row) ==
    /\ HintCanRead(1)
    /\ hp_a' = PackItem(hp_a, HintedItem(hp_items + 1, None))
    /\ hp_b' = PackItem(hp_b, HintedItem(hp_items + 1, row))
    /\ hp_items' = hp_items + 1
    /\ UNCHANGED <<hp_pc, hp_pcb, hp_groups>>
    /\ UNCHANGED notHintVars

\* The next entry is a ui.ActionRow built beforehand from items with the row hints rows.
HintRow(rows) ==
    /\ HintCanRead(Len(rows))
    /\ hp_groups < MaxHintGroups
    /\ LET ma == ActionRow_init(HintedItems(hp_items + 1, NoHints(Len(rows))))
           mb == ActionRow_init(HintedItems(hp_items + 1, rows))
       IN  /\ ~ma.raised /\ ~mb.raised
           /\ hp_a' = PackRow([hp_a EXCEPT !.heap = Append(@, ma.children)],
                              Len(hp_a.heap) + 1)
           /\ hp_b' = PackRow([hp_b EXCEPT !.heap = Append(@, mb.children)],
                              Len(hp_b.heap) + 1)
    /\ hp_items' = hp_items + Len(rows)
    /\ hp_groups' = hp_groups + 1
    /\ UNCHANGED <<hp_pc, hp_pcb>>
    /\ UNCHANGED notHintVars

\* The next entry is a nested sequence of items with the row hints rows.
HintSeq(rows) ==
    /\ HintCanRead(Len(rows))
    /\ hp_groups < MaxHintGroups
    /\ LET ra == PackSeq(hp_a, HintedItems(hp_items + 1, NoHints(Len(rows))))
           rb == PackSeq(hp_b, HintedItems(hp_items + 1, rows))
       IN  /\ hp_a' = ra.st
           /\ hp_b' = rb.st
           /\ hp_pc' = IF ra.raised THEN "raised" ELSE "loop"
           /\ hp_pcb' = IF rb.raised THEN "raised" ELSE "loop"
    /\ hp_items' = hp_items + Len(rows)
    /\ hp_groups' = hp_groups + 1
    /\ UNCHANGED notHintVars

\* Both calls return.
HintReturn ==
    /\ hp_pc = "loop"
    /\ hp_pcb = "loop"
    /\ hp_a' = PackReturn(hp_a)
    /\ hp_b' = PackReturn(hp_b)
    /\ hp_pc' = "done"
    /\ hp_pcb' = "done"
    /\ UNCHANGED <<hp_items, hp_groups>>
    /\ UNCHANGED notHintVars

\* The row hints of the groups tried: two items, and six items.
GroupHints == [1..2 -> HintRows] \cup {NoHints(MaxWidth + 1), [i \in 1..(MaxWidth + 1) |-> Some(4)]}

NextHints ==
    \/ HintCall
    \/ \E row \in HintRows : HintItem(row)
    \/ \E rows \in [1..2 -> HintRows] : HintRow(rows)
    \/ \E rows \in GroupHints : HintSeq(rows)
    \/ HintReturn

\* The grouping a call made: for each row of action_rows, the numbers of the
\* item objects it holds, in order.
Grouping(st) ==
    [j \in DOMAIN st.action_rows |->
        [i \in DOMAIN st.heap[st.action_rows[j]] |-> st.heap[st.action_rows[j]][i].id]]

\* C26: the grouping components_to_rows makes does not depend on the row
\* hints of the items: the call on an input whose items hold row hints
\* returns, or raises, as the call on the same input without row hints does,
\* with the same items in the same rows; so any two inputs that differ only
\* in row hints are grouped alike.
C26_HintsIgnored ==
    /\ hp_pc = hp_pcb
    /\ Grouping(hp_a) = Grouping(hp_b)
    /\ hp_pc # "idle" =>
           Grouping([hp_a EXCEPT !.action_rows = <<hp_a.auto_row>>]) =
               Grouping([hp_b EXCEPT !.action_rows = <<hp_b.auto_row>>])

C26_Witness ==
    /\ hp_pc = "done"
    /\ hp_items = MaxHinted
    /\ Len(hp_b.action_rows) = 3
    /\ \A j \in DOMAIN hp_b.action_rows : \E i \in DOMAIN hp_b.heap[hp_b.action_rows[j]] :
           hp_b.heap[hp_b.action_rows[j]][i].row = Some(4 * (j % 2))
    /\ hp_groups = 1

-----------------------------------------------------------------------------
\* ActionRow.walk_components (disnake/ui/action_row.py): the generator,
\* resumed by its consumer, who changes the rows between two steps.

\* Most changes the consumer makes during one walk.
MaxWalkOps == 2

\* The rows at hand (the children of row 1 and of row 2), the lists of rows
\* that are walked, and the item the consumer inserts.
WalkHeaps == {<<r1, r2>> : r1 \in {<<>>, <<1, 2>>, <<1, 2, 3>>}, r2 \in {<<4>>, <<4, 5>>}}
WalkLists == {<<1, 2>>, <<2, 1>>, <<1, 1>>, <<2>>}
WalkInserted == {9}

\* What the inner loop iterates: tuple(row.children), taken when the outer
\* loop reaches the row, not the list of the row as it is now.
IterationSource_Live(snapshot, live) == live

IterationSource(snapshot, live) == snapshot

\* The generator runs to its next yield or to its end, from position i of
\* tuple(action_rows) and position j of the inner loop; hp is the children
\* list of every row now.
RECURSIVE walk_resume(_, _, _, _, _, _)
walk_resume(rows, hp, i, j, children, seen) ==
    LET source == IF i = 0 THEN <<>> ELSE IterationSource(children, hp[rows[i]])
    IN  IF j < Len(source)
        THEN [done |-> FALSE, i |-> i, j |-> j + 1, children |-> children, seen |-> seen,
              out |-> <<<<rows[i], source[j + 1]>>>>]
        ELSE IF i = Len(rows)
        THEN [done |-> TRUE, i |-> i, j |-> j, children |-> children, seen |-> seen,
              out |-> <<>>]
        ELSE walk_resume(rows, hp, i + 1, 0, hp[rows[i + 1]],
                         Append(seen, hp[rows[i + 1]]))

InitWalk ==
    /\ wk_pc = "idle"
    /\ wk_list = <<>>
    /\ wk_heap = <<>>
    /\ wk_rows = <<>>
    /\ wk_i = 0
    /\ wk_children = <<>>
    /\ wk_j = 0
    /\ wk_seen = <<>>
    /\ wk_out = <<>>
    /\ wk_ops = 0

\* ActionRow.walk_components(action_rows): the generator object is made,
\* nothing of its body has run.
WalkCall ==
    /\ wk_pc = "idle"
    /\ \E hp \in WalkHeaps, l \in WalkLists : wk_heap' = hp /\ wk_list' = l
    /\ wk_pc' = "new"
    /\ UNCHANGED <<wk_rows, wk_i, wk_children, wk_j, wk_seen, wk_out, wk_ops>>
    /\ UNCHANGED notWalkVars

\* next(generator): the first one evaluates tuple(action_rows).
WalkNext ==
    /\ wk_pc \in {"new", "yielded"}
    /\ LET rows == IF wk_pc = "new" THEN wk_list ELSE wk_rows
           r == walk_resume(rows, wk_heap, wk_i, wk_j, wk_children, wk_seen)
       IN  /\ wk_rows' = rows
           /\ wk_i' = r.i
           /\ wk_j' = r.j
           /\ wk_children' = r.children
           /\ wk_seen' = r.seen
           /\ wk_out' = wk_out \o r.out
           /\ wk_pc' = IF r.done THEN "finished" ELSE "yielded"
    /\ UNCHANGED <<wk_list, wk_heap, wk_ops>>
    /\ UNCHANGED notWalkVars

WalkConsumerTurn ==
    /\ wk_pc \in {"new", "yielded"}
    /\ wk_ops < MaxWalkOps
    /\ wk_ops' = wk_ops + 1
    /\ UNCHANGED <<wk_pc, wk_rows, wk_i, wk_children, wk_j, wk_seen, wk_out>>
    /\ UNCHANGED notWalkVars

\* Between two steps the consumer calls row.remove_item(item) on a row.
WalkRemove ==
    /\ WalkConsumerTurn
    /\ \E row \in DOMAIN wk_heap : \E item \in {wk_heap[row][p] : p \in DOMAIN wk_heap[row]} :
           wk_heap' = [wk_heap EXCEPT ![row] = remove_item(@, item).children]
    /\ UNCHANGED wk_list

\* Between two steps the consumer calls row.insert_item(index, item) on a row.
WalkInsert ==
    /\ WalkConsumerTurn
    /\ \E row \in DOMAIN wk_heap, index \in {0, 1}, item \in WalkInserted :
           /\ ~insert_item(wk_heap[row], index, item).raised
           /\ wk_heap' = [wk_heap EXCEPT ![row] = insert_item(@, index, item).children]
    /\ UNCHANGED wk_list

\* Between two steps the consumer removes the first row from its list.
WalkDropRow ==
    /\ WalkConsumerTurn
    /\ wk_list # <<>>
    /\ wk_list' = Tail(wk_list)
    /\ UNCHANGED wk_heap

NextWalk ==
    \/ WalkCall
    \/ WalkNext
    \/ WalkRemove
    \/ WalkInsert
    \/ WalkDropRow

\* The pairs of the k-th row the walk reached, with the children it then held.
PairsOf(k) == [m \in DOMAIN wk_seen[k] |-> <<wk_rows[k], wk_seen[k][m]>>]

IsPrefix(a, b) == Len(a) <= Len(b) /\ SubSeq(b, 1, Len(a)) = a

\* C28: walk_components yields, for each row of the sequence in order, every
\* component that was in the row when the walk reached the row, once and in
\* order, paired with the row, also when the consumer removes or inserts
\* components between two steps: what was yielded so far is the pairs of the
\* rows the walk has left and the first pairs of the row it is in, and at
\* the end it is the pairs of every row.
C28_WalkSnapshot ==
    LET n == Len(wk_seen)
        left == Concat([k \in 1..(n - 1) |-> PairsOf(k)])
        all == Concat([k \in 1..n |-> PairsOf(k)])
    IN  /\ IsPrefix(left, wk_out)
        /\ IsPrefix(wk_out, all)
        /\ wk_pc = "yielded" => Len(wk_out) > Len(left)
        /\ wk_pc = "finished" => (wk_out = all /\ n = Len(wk_rows))

C28_Witness ==
    /\ wk_pc = "finished"
    /\ wk_ops = MaxWalkOps
    /\ wk_rows = <<1, 2>>
    /\ wk_out = <<<<1, 1>>, <<1, 2>>, <<1, 3>>, <<2, 9>>, <<2, 4>>>>
    /\ wk_heap[1] = <<1, 3>>

-----------------------------------------------------------------------------
\* The specifications: the packer, the codec, and the life of a button item.

Init == InitPack /\ InitCodec /\ InitItem /\ InitRow /\ InitMessage /\ InitHints /\ InitWalk

Next == NextPack

Spec == Init /\ [][Next]_vars

SpecCodec == Init /\ [][NextCodec]_vars

SpecItem == Init /\ [][NextButton]_vars

SpecRow == Init /\ [][NextRow]_vars

SpecMessage == Init /\ [][NextMessage]_vars

SpecHints == Init /\ [][NextHints]_vars

SpecWalk == Init /\ [][NextWalk]_vars

====
